---- MODULE Spec2Model ----
(***************************************************************************)
(* A model of the BulletML runtime core: the tree zipper (run/zipper.rs),  *)
(* the compilation pass (run/compile.rs, run/util.rs, data/data.rs) and    *)
(* the runner (run/runner.rs) driven through the BulletManager trait.      *)
(*                                                                         *)
(* Expressions (data/expression.rs, data/expression/) are parsed, folded   *)
(* and evaluated in a specification of their own.                          *)
(*                                                                         *)
(* In the runner, values (f32 in the source) are kept as integers counting *)
(* halves: the value 1.5 is the integer 3.  In the expression sections a   *)
(* value is an exact fraction.  Option<T> is a sequence of length 0 or 1.  *)
(***************************************************************************)
EXTENDS Integers, Sequences, FiniteSets, TLC

VARIABLES
    tree,       \* zipper spec: the tree handed to Node::zipper().iter()
    iter,       \* zipper spec: the ZipperIter
    yielded,    \* zipper spec: what the calls of next() returned so far
    script,     \* the data::BulletML given to BulletML::new / Runner::new
    compiled,   \* compile spec: the result of BulletML::new(script)
    runner,     \* runner spec: the result of Runner::new (state + bulletml)
    mgr,        \* runner spec: the host's BulletManager (its query values)
    calls,      \* runner spec: the manager commands of the latest update()
    host,       \* runner spec: how the host has called update() so far
    calc,       \* expression spec: a text, its context and what became of it
    later       \* zipper spec: what the calls after the first None returned

vars == <<tree, iter, yielded, script, compiled, runner, mgr, calls, host, calc, later>>

----------------------------------------------------------------------------
(* Option<T> *)

None == <<>>

Some(x) == <<x>>

is_some(o) == o # <<>>

unwrap(o) == o[1]

----------------------------------------------------------------------------
(* run/zipper.rs *)

\* Node::new
NodeNew(d) == [data |-> d, children |-> <<>>]

\* Node::is_empty
is_empty(n) == Len(n.children) = 0

\* Node::len
len(n) == Len(n.children)

\* Node::add_child
add_child(n, c) == [n EXCEPT !.children = Append(@, c)]

\* Vec::remove(idx), which closes the gap and keeps the order of the rest;
\* swap_remove must not behave like it.
remove(s, idx) ==
    [k \in 1..(Len(s) - 1) |-> IF k < idx + 1 THEN s[k] ELSE s[k + 1]]

\* Vec::swap_remove(idx), idx counted from 0: the last element takes the place
\* of the removed one.
swap_remove(s, idx) ==
    [k \in 1..(Len(s) - 1) |-> IF k = idx + 1 THEN s[Len(s)] ELSE s[k]]

\* Vec::swap(i, j), both counted from 0.
swap(s, i, j) ==
    [k \in 1..Len(s) |-> IF k = i + 1 THEN s[j + 1]
                         ELSE IF k = j + 1 THEN s[i + 1] ELSE s[k]]

\* Zipper::new
ZipperNew(node) == [node |-> node, parent |-> None]

\* Zipper::child(idx): detach the child, focus on it, keep the old zipper and
\* the index as the parent frame.
child(z, idx) ==
    LET old_zipper == [node   |-> [z.node EXCEPT !.children = swap_remove(@, idx)],
                       parent |-> z.parent]
    IN  [node   |-> z.node.children[idx + 1],
         parent |-> Some([zipper |-> old_zipper, idx |-> idx])]

\* Zipper::parent(): self.parent is taken (mem::replace with None) and never
\* set again; the frame the parent zipper held is dropped with it.
parent(z) ==
    IF ~is_some(z.parent)
    THEN z
    ELSE LET p      == unwrap(z.parent).zipper
             idx    == unwrap(z.parent).idx
             pushed == Append(p.node.children, z.node)
         IN  [node   |-> [p.node EXCEPT !.children = swap(pushed, idx, Len(pushed) - 1)],
              parent |-> None]

\* ZipperIter::new
ZipperIterNew(z) == [zipper |-> z, started |-> FALSE, done |-> FALSE]

\* ZipperIter::current_mut / current: None once done, else the focused node.
current_mut(it) == IF it.done THEN None ELSE Some(it.zipper.node)

\* ZipperIter::add_child
iter_add_child(it, node) == [it EXCEPT !.zipper.node = add_child(@, node)]

\* The loop of ZipperIter::next (lines 153-173): walk up until a next sibling
\* exists.  The result is the zipper and whether the walk left the root.
RECURSIVE next_sibling(_)
next_sibling(z) ==
    IF ~is_some(z.parent)
    THEN [zipper |-> z, done |-> TRUE]
    ELSE LET next_idx == unwrap(z.parent).idx + 1
             up       == parent(z)
         IN  IF next_idx < len(up.node)
             THEN [zipper |-> child(up, next_idx), done |-> FALSE]
             ELSE next_sibling(up)

\* A next() that, called on an exhausted iterator, makes it ready to start
\* again; next must not behave like it.
next_starting_over(it) ==
    IF it.done
    THEN [it |-> [it EXCEPT !.done = FALSE, !.started = FALSE], out |-> None]
    ELSE IF it.started
    THEN IF is_empty(it.zipper.node)
         THEN LET r == next_sibling(it.zipper)
              IN  IF r.done
                  THEN [it  |-> [it EXCEPT !.zipper = r.zipper, !.done = TRUE],
                        out |-> None]
                  ELSE [it  |-> [it EXCEPT !.zipper = r.zipper],
                        out |-> Some(r.zipper.node.data)]
         ELSE LET z == child(it.zipper, 0)
              IN  [it |-> [it EXCEPT !.zipper = z], out |-> Some(z.node.data)]
    ELSE [it  |-> [it EXCEPT !.started = TRUE],
          out |-> Some(it.zipper.node.data)]

\* ZipperIter::next: the iterator after the call, and what the call returned
\* (None, or Some(data of the focused node)).
next(it) ==
    IF it.done
    THEN [it |-> it, out |-> None]
    ELSE IF it.started
    THEN IF is_empty(it.zipper.node)
         THEN LET r == next_sibling(it.zipper)
              IN  IF r.done
                  THEN [it  |-> [it EXCEPT !.zipper = r.zipper, !.done = TRUE],
                        out |-> None]
                  ELSE [it  |-> [it EXCEPT !.zipper = r.zipper],
                        out |-> Some(r.zipper.node.data)]
         ELSE LET z == child(it.zipper, 0)
              IN  [it |-> [it EXCEPT !.zipper = z], out |-> Some(z.node.data)]
    ELSE [it  |-> [it EXCEPT !.started = TRUE],
          out |-> Some(it.zipper.node.data)]

----------------------------------------------------------------------------
(* The zipper on its own: next() called again and again on a fresh iterator *)

MaxNodes == 6

\* The pre-order depth sequences of the ordered trees with n nodes: the root
\* at depth 0, every later node at most one level below the node before it.
RECURSIVE DepthSeqs(_)
DepthSeqs(n) ==
    IF n = 1
    THEN {<<0>>}
    ELSE UNION {{Append(s, d) : d \in 1..(s[n - 1] + 1)} : s \in DepthSeqs(n - 1)}

\* The positions of the children of the node at position i of depth sequence s.
ChildPositions(s, i) ==
    {k \in (i + 1)..Len(s) :
        /\ s[k] = s[i] + 1
        /\ \A j \in (i + 1)..k : s[j] > s[i]}

\* The elements of a set of numbers in increasing order.
RECURSIVE Sorted(_)
Sorted(S) ==
    IF S = {}
    THEN <<>>
    ELSE LET m == CHOOSE x \in S : \A y \in S : x <= y
         IN  <<m>> \o Sorted(S \ {m})

\* The Node<usize> at position i of depth sequence s; a node's data is its
\* pre-order number, counted from 0 (as in the tests of zipper.rs).
RECURSIVE TreeAt(_, _)
TreeAt(s, i) ==
    LET cs == Sorted(ChildPositions(s, i))
    IN  [data |-> i - 1, children |-> [k \in 1..Len(cs) |-> TreeAt(s, cs[k])]]

Trees == {TreeAt(s, 1) : s \in UNION {DepthSeqs(n) : n \in 1..MaxNodes}}

\* The number of nodes of a tree.
RECURSIVE Size(_)
RECURSIVE SizeAll(_)
Size(n) == 1 + SizeAll(n.children)
SizeAll(ns) == IF ns = <<>> THEN 0 ELSE Size(Head(ns)) + SizeAll(Tail(ns))

\* The data of a tree's nodes in pre-order: a node, then its children in
\* index order.
RECURSIVE PreOrder(_)
RECURSIVE PreOrderAll(_)
PreOrder(n) == <<n.data>> \o PreOrderAll(n.children)
PreOrderAll(ns) == IF ns = <<>> THEN <<>> ELSE PreOrder(Head(ns)) \o PreOrderAll(Tail(ns))

\* The values of the runner's and the compiler's variables while only the
\* zipper runs, and of the zipper's while it does not.
Idle == "idle"

ZInit ==
    /\ tree \in Trees
    /\ iter = ZipperIterNew(ZipperNew(tree))
    /\ yielded = <<>>
    /\ script = Idle /\ compiled = Idle /\ runner = Idle
    /\ mgr = Idle /\ calls = Idle /\ host = Idle /\ calc = Idle
    /\ later = <<>>

MaxAgain == 2

\* One call of iter.next(), up to the first None.
ZFirst ==
    /\ ~(Len(yielded) > 0 /\ yielded[Len(yielded)] = None)
    /\ LET r == next(iter)
       IN  /\ iter' = r.it
           /\ yielded' = Append(yielded, r.out)
    /\ UNCHANGED <<tree, script, compiled, runner, mgr, calls, host, calc, later>>

\* One call of iter.next() after the first None, and what current_mut()
\* returns after it.
ZAgain ==
    /\ Len(yielded) > 0 /\ yielded[Len(yielded)] = None
    /\ Len(later) < MaxAgain
    /\ LET r == next(iter)
       IN  /\ iter' = r.it
           /\ later' = Append(later, [next |-> r.out, current |-> current_mut(r.it)])
    /\ UNCHANGED <<tree, yielded, script, compiled, runner, mgr, calls, host, calc>>

ZNext == ZFirst \/ ZAgain

SpecZipper == ZInit /\ [][ZNext]_vars

\* C1: next() called repeatedly on a fresh iterator yields every node of the
\* tree exactly once, in pre-order, and then None.
C1_PreOrderThenNone ==
    iter.done => yielded = [k \in 1..Size(tree) |-> Some(PreOrder(tree)[k])] \o <<None>>

\* C18: for the zipper the iterator holds and every valid child index i,
\* child(i) followed by parent() gives a zipper whose node is the node before
\* the two calls, its children in their order.
C18_ChildThenParentRestoresNode ==
    \A i \in 0..(len(iter.zipper.node) - 1) :
        parent(child(iter.zipper, i)).node = iter.zipper.node

C18_Witness ==
    /\ Len(yielded) >= 2
    /\ is_some(iter.zipper.parent)
    /\ len(iter.zipper.node) >= 3
    /\ parent(child(iter.zipper, 0)).node = iter.zipper.node

\* The tree that a zipper stands for: the focused node put back at its index
\* in the node of its parent frame, and so on up to the frame without parent.
RECURSIVE Rebuild(_)
Rebuild(z) ==
    IF ~is_some(z.parent)
    THEN z.node
    ELSE Rebuild([node   |-> [unwrap(z.parent).zipper.node EXCEPT
                                  !.children = swap(Append(@, z.node),
                                                    unwrap(z.parent).idx, Len(@))],
                  parent |-> unwrap(z.parent).zipper.parent])

\* C19: whatever child() and parent() calls next() has made, the focused node
\* and its chain of parent frames make up the whole tree.
C19_ChainReconstructsTree == Rebuild(iter.zipper) = tree

----------------------------------------------------------------------------
(* data/data.rs: the entity graph *)

\* A comparison that takes the whole string for the prefix; starts_with must
\* not behave like it.
is_exactly(str, prefix) == str = prefix

\* A String is the sequence of its characters.
starts_with(str, prefix) ==
    /\ Len(str) >= Len(prefix)
    /\ SubSeq(str, 1, Len(prefix)) = prefix

\* EntityRef::Ref(Reference { label, .. }) and EntityRef::Real(Rc<T>)
Ref(label) == [ref |-> "Ref", label |-> label]

Real(e) == [ref |-> "Real", entity |-> e]

\* data::EntityError::CannotFind
CannotFind(label) == [error |-> "CannotFind", label |-> label]

\* Result: Ok(v) and Err(e).  L is the pair of libraries as the call left it.
Ok(v, L) == [ok |-> TRUE, val |-> v, L |-> L]

Err(e, L) == [ok |-> FALSE, err |-> e, L |-> L]

\* A lookup that does not compare the name and hands out whatever the table
\* holds; find must not behave like it.
find_any(table, name) ==
    IF DOMAIN table # {}
    THEN Some(table[CHOOSE n \in DOMAIN table : TRUE])
    ELSE None

\* EntityLookup::find for DataLibrary: table is data_lib.actions, .bullets or
\* .fires.
find(table, name) ==
    IF name \in DOMAIN table THEN Some(table[name]) ELSE None

\* EntityRef::entity: a named reference is looked up in the source table, an
\* owned entity is returned as it is.
entity(eref, table, L) ==
    IF eref.ref = "Ref"
    THEN IF is_some(find(table, eref.label))
         THEN Ok(unwrap(find(table, eref.label)), L)
         ELSE Err(CannotFind(eref.label), L)
    ELSE Ok(eref.entity, L)

----------------------------------------------------------------------------
(* run/util.rs and run/compile.rs *)

\* util::EntityError::Duplicate
Duplicate(kind, name) == [error |-> "Duplicate", kind |-> kind, name |-> name]

\* An insertion that overwrites an occupied entry; try_insert must not behave
\* like it.
insert_over(name, map, v, kind) ==
    [ok |-> TRUE, map |-> (name :> v) @@ [n \in DOMAIN map \ {name} |-> map[n]]]

\* util::try_insert: an occupied entry is an error, a vacant one is filled.
try_insert(name, map, v, kind) ==
    IF name \in DOMAIN map
    THEN [ok |-> FALSE, err |-> Duplicate(kind, name), map |-> map]
    ELSE [ok |-> TRUE, map |-> (name :> v) @@ map]

\* Library::default() and DataLibrary::default()
EmptyMap == [x \in {} |-> x]

NoLibraries ==
    [lib      |-> [actions |-> EmptyMap, bullets |-> EmptyMap, fires |-> EmptyMap],
     data_lib |-> [actions |-> EmptyMap, bullets |-> EmptyMap, fires |-> EmptyMap]]

\* A registration that keeps the entities of every kind in one table; register
\* must not behave like it.
register_in_one_table(L, table, label, comp, source, kind) ==
    IF ~is_some(label)
    THEN Ok(comp, L)
    ELSE LET name == unwrap(label)
             i1   == try_insert(name, L.lib.actions, comp, kind)
         IN  IF ~i1.ok
             THEN Err(i1.err, L)
             ELSE LET L1 == [L EXCEPT !.lib.actions = i1.map]
                      i2 == try_insert(name, L1.data_lib.actions, source, kind)
                  IN  IF ~i2.ok
                      THEN Err(i2.err, L1)
                      ELSE Ok(comp, [L1 EXCEPT !.data_lib.actions = i2.map])

\* The registration at the end of Action::new, Bullet::new and Fire::new: the
\* compiled entity goes into lib, and then the source entity into data_lib.
register(L, table, label, comp, source, kind) ==
    IF ~is_some(label)
    THEN Ok(comp, L)
    ELSE LET name == unwrap(label)
             i1   == try_insert(name, L.lib[table], comp, kind)
         IN  IF ~i1.ok
             THEN Err(i1.err, L)
             ELSE LET L1 == [L EXCEPT !.lib[table] = i1.map]
                      i2 == try_insert(name, L1.data_lib[table], source, kind)
                  IN  IF ~i2.ok
                      THEN Err(i2.err, L1)
                      ELSE Ok(comp, [L1 EXCEPT !.data_lib[table] = i2.map])

\* Result::and_then and Result::map, which is what `?` and `.map(..)` do to a
\* Result: the first error is handed on, a value goes into F with the
\* libraries as the call left them.
and_then(r, F(_, _)) == IF r.ok THEN F(r.L, r.val) ELSE r

map(r, F(_)) == IF r.ok THEN Ok(F(r.val), r.L) ELSE r

RECURSIVE StepNew(_, _)
RECURSIVE StepsNew(_, _, _)
RECURSIVE ActionNew(_, _)
RECURSIVE ActionRefsNew(_, _, _)
RECURSIVE BulletNew(_, _)
RECURSIVE FireNew(_, _)
RECURSIVE RepeatNew(_, _)

\* A Step::new that takes a named action for an action without steps instead
\* of looking it up; StepNew must not behave like it.
StepNewTrustingNames(L, step) ==
    CASE step.step = "Repeat" ->
            map(RepeatNew(L, step.repeat),
                LAMBDA v : [step |-> "Repeat", repeat |-> v])
      [] step.step = "Fire" ->
            map(and_then(entity(step.fire, L.data_lib.fires, L),
                         LAMBDA L1, e : FireNew(L1, e)),
                LAMBDA v : [step |-> "Fire", fire |-> v])
      [] step.step = "Action" /\ step.action.ref = "Ref" ->
            Ok([step |-> "Action", action |-> [steps |-> <<>>]], L)
      [] step.step = "Action" /\ step.action.ref # "Ref" ->
            map(ActionNew(L, step.action.entity),
                LAMBDA v : [step |-> "Action", action |-> v])
      [] OTHER -> Ok(step, L)

\* Step::new
StepNew(L, step) ==
    CASE step.step = "Repeat" ->
            map(RepeatNew(L, step.repeat),
                LAMBDA v : [step |-> "Repeat", repeat |-> v])
      [] step.step = "Fire" ->
            map(and_then(entity(step.fire, L.data_lib.fires, L),
                         LAMBDA L1, e : FireNew(L1, e)),
                LAMBDA v : [step |-> "Fire", fire |-> v])
      [] step.step = "Action" ->
            map(and_then(entity(step.action, L.data_lib.actions, L),
                         LAMBDA L1, e : ActionNew(L1, e)),
                LAMBDA v : [step |-> "Action", action |-> v])
      [] OTHER -> Ok(step, L)

\* action.steps.iter().map(Step::new).collect::<Result<Vec<_>, _>>(): the
\* first error ends the iteration.
StepsNew(L, steps, acc) ==
    IF steps = <<>>
    THEN Ok(acc, L)
    ELSE and_then(StepNew(L, Head(steps)),
                  LAMBDA L1, v : StepsNew(L1, Tail(steps), Append(acc, v)))

\* Action::new
ActionNew(L, action) ==
    and_then(StepsNew(L, action.steps, <<>>),
             LAMBDA L1, steps :
                 register(L1, "actions", action.label, [steps |-> steps],
                          action, "action"))

\* The closure of Bullet::new and of Repeat::new over their action list:
\* action.entity(data_lib)? and then Action::new, up to the first error.
ActionRefsNew(L, refs, acc) ==
    IF refs = <<>>
    THEN Ok(acc, L)
    ELSE and_then(and_then(entity(Head(refs), L.data_lib.actions, L),
                           LAMBDA L1, e : ActionNew(L1, e)),
                  LAMBDA L2, v : ActionRefsNew(L2, Tail(refs), Append(acc, v)))

\* Bullet::new
BulletNew(L, bullet) ==
    and_then(ActionRefsNew(L, bullet.actions, <<>>),
             LAMBDA L1, actions :
                 register(L1, "bullets", bullet.label,
                          [direction |-> bullet.direction, speed |-> bullet.speed,
                           actions |-> actions],
                          bullet, "bullet"))

\* Fire::new
FireNew(L, fire) ==
    and_then(and_then(entity(fire.bullet, L.data_lib.bullets, L),
                      LAMBDA L1, e : BulletNew(L1, e)),
             LAMBDA L2, b :
                 register(L2, "fires", fire.label,
                          [direction |-> fire.direction, speed |-> fire.speed,
                           bullet |-> b],
                          fire, "fire"))

\* Repeat::new
RepeatNew(L, repeat) ==
    map(ActionRefsNew(L, repeat.actions, <<>>),
        LAMBDA actions : [times |-> repeat.times, actions |-> actions])

\* Step::into_node: an action becomes a Root node over its steps' nodes.
RECURSIVE into_node(_)
into_node(step) ==
    IF step.step = "Action"
    THEN [data     |-> [step |-> "Root"],
          children |-> [k \in 1..Len(step.action.steps) |->
                            into_node(step.action.steps[k])]]
    ELSE NodeNew(step)

\* Action::node
node(action) ==
    [data     |-> [step |-> "Root"],
     children |-> [k \in 1..Len(action.steps) |-> into_node(action.steps[k])]]

\* Repeat::new_steps: count copies of the action list, one after the other.
RECURSIVE new_steps(_, _)
new_steps(repeat, count) ==
    IF count = 0
    THEN <<>>
    ELSE [k \in 1..Len(repeat.actions) |->
              into_node([step |-> "Action", action |-> repeat.actions[k]])]
         \o new_steps(repeat, count - 1)

\* A pass that compiles every element where it stands in the document, the
\* top actions too; FirstPass must not behave like it.
RECURSIVE FirstPassInOrder(_, _, _)
FirstPassInOrder(L, elements, top_actions) ==
    IF elements = <<>>
    THEN Ok(top_actions, L)
    ELSE and_then(CASE Head(elements).element = "Bullet" ->
                           BulletNew(L, Head(elements).entity)
                    [] Head(elements).element = "Fire" ->
                           FireNew(L, Head(elements).entity)
                    [] OTHER -> ActionNew(L, Head(elements).entity),
                  LAMBDA L1, v : FirstPassInOrder(L1, Tail(elements), top_actions))

\* The first pass of BulletML::new (the filter_map over the elements, lines
\* 343-377): bullets, fires and the actions whose label does not start with
\* "top" are compiled, the others are put aside; the first error ends it.
RECURSIVE FirstPass(_, _, _)
FirstPass(L, elements, top_actions) ==
    IF elements = <<>>
    THEN Ok(top_actions, L)
    ELSE IF /\ Head(elements).element = "Action"
            /\ is_some(Head(elements).entity.label)
            /\ starts_with(unwrap(Head(elements).entity.label), <<"t", "o", "p">>)
         THEN FirstPass(L, Tail(elements), Append(top_actions, Head(elements).entity))
         ELSE and_then(CASE Head(elements).element = "Bullet" ->
                                BulletNew(L, Head(elements).entity)
                         [] Head(elements).element = "Fire" ->
                                FireNew(L, Head(elements).entity)
                         [] OTHER -> ActionNew(L, Head(elements).entity),
                       LAMBDA L1, v : FirstPass(L1, Tail(elements), top_actions))

\* The second pass (lines 378-381): the actions put aside are compiled.
RECURSIVE SecondPass(_, _, _)
SecondPass(L, top_actions, acc) ==
    IF top_actions = <<>>
    THEN Ok(acc, L)
    ELSE and_then(ActionNew(L, Head(top_actions)),
                  LAMBDA L1, v : SecondPass(L1, Tail(top_actions), Append(acc, v)))

\* The tree of a compiled script: a Root over the nodes of the top actions.
root_of(actions) ==
    [data     |-> [step |-> "Root"],
     children |-> [k \in 1..Len(actions) |-> node(actions[k])]]

\* The Result of the two passes as the program's outcome.
outcome(r, orientation) ==
    IF r.ok
    THEN [status      |-> "ok",
          orientation |-> orientation,
          steps       |-> ZipperIterNew(ZipperNew(root_of(r.val)))]
    ELSE [status |-> "err", err |-> r.err]

\* BulletML::new: Ok(BulletML { orientation, steps }) or the first error.
BulletMLNew(bulletml) ==
    outcome(and_then(FirstPass(NoLibraries, bulletml.elements, <<>>),
                     LAMBDA L1, tops : SecondPass(L1, tops, <<>>)),
            bulletml.orientation)

----------------------------------------------------------------------------
(* The entities of data/data.rs, as the scripts below build them *)

\* Expr::Float(v), v in halves
Float(v) == [expr |-> "Float", v |-> v]

\* data::Action, data::Bullet, data::Fire
Action(label, steps) == [label |-> label, steps |-> steps]

Bullet(label, direction, speed, actions) ==
    [label |-> label, direction |-> direction, speed |-> speed, actions |-> actions]

Fire(label, direction, speed, bullet) ==
    [label |-> label, direction |-> direction, speed |-> speed, bullet |-> bullet]

\* data::Direction and data::Speed
Direction(kind, degrees) == [kind |-> kind, degrees |-> degrees]

Speed(kind, change) == [kind |-> kind, change |-> change]

\* data::Step
StepWait(frames) == [step |-> "Wait", wait |-> [frames |-> frames]]

StepVanish == [step |-> "Vanish"]

StepRepeat(times, actions) ==
    [step |-> "Repeat", repeat |-> [times |-> [value |-> times], actions |-> actions]]

StepFire(eref) == [step |-> "Fire", fire |-> eref]

StepAction(eref) == [step |-> "Action", action |-> eref]

StepChangeSpeed(kind, change, term) ==
    [step |-> "ChangeSpeed",
     change_speed |-> [speed |-> Speed(kind, change), value |-> [value |-> term]]]

StepChangeDirection(kind, degrees, term) ==
    [step |-> "ChangeDirection",
     change_direction |-> [direction |-> Direction(kind, degrees),
                           value |-> [value |-> term]]]

\* data::Horizontal and data::Vertical
Horizontal(kind, change) == [kind |-> kind, change |-> change]

Vertical(kind, change) == [kind |-> kind, change |-> change]

StepAccel(horizontal, vertical, term) ==
    [step |-> "Accel",
     accel |-> [horizontal |-> horizontal, vertical |-> vertical,
                duration |-> [value |-> term]]]

\* data::Element and data::BulletML
Element(kind, e) == [element |-> kind, entity |-> e]

BulletML(orientation, elements) == [orientation |-> orientation, elements |-> elements]

----------------------------------------------------------------------------
(* The order in which BulletML::new reaches the parts of a script             *)
(* (compile.rs:339-391): the named references it looks up and the labelled    *)
(* entities it registers, an entity after its body.                           *)

EvRef(kind, label) == [ev |-> "ref", kind |-> kind, label |-> label]

EvDef(kind, label) == [ev |-> "def", kind |-> kind, label |-> label]

EvLabel(kind, label) == IF is_some(label) THEN <<EvDef(kind, unwrap(label))>> ELSE <<>>

RECURSIVE EvAction(_)
RECURSIVE EvSteps(_)
RECURSIVE EvActionRefs(_)
RECURSIVE EvBullet(_)
RECURSIVE EvFire(_)

EvAction(a) == EvSteps(a.steps) \o EvLabel("action", a.label)

EvActionRefs(refs) ==
    IF refs = <<>>
    THEN <<>>
    ELSE (IF Head(refs).ref = "Ref"
          THEN <<EvRef("action", Head(refs).label)>>
          ELSE EvAction(Head(refs).entity))
         \o EvActionRefs(Tail(refs))

EvBullet(b) == EvActionRefs(b.actions) \o EvLabel("bullet", b.label)

EvFire(f) ==
    (IF f.bullet.ref = "Ref"
     THEN <<EvRef("bullet", f.bullet.label)>>
     ELSE EvBullet(f.bullet.entity))
    \o EvLabel("fire", f.label)

EvSteps(steps) ==
    IF steps = <<>>
    THEN <<>>
    ELSE LET st == Head(steps)
         IN  (CASE st.step = "Repeat" -> EvActionRefs(st.repeat.actions)
                [] st.step = "Action" -> EvActionRefs(<<st.action>>)
                [] st.step = "Fire" ->
                      IF st.fire.ref = "Ref"
                      THEN <<EvRef("fire", st.fire.label)>>
                      ELSE EvFire(st.fire.entity)
                [] OTHER -> <<>>)
             \o EvSteps(Tail(steps))

\* Whether a top-level element is an action whose label begins with the
\* characters t, o, p.
IsTop(el) ==
    /\ el.element = "Action"
    /\ is_some(el.entity.label)
    /\ LET l == unwrap(el.entity.label)
       IN  Len(l) >= 3 /\ l[1] = "t" /\ l[2] = "o" /\ l[3] = "p"

EvElement(el) ==
    CASE el.element = "Bullet" -> EvBullet(el.entity)
      [] el.element = "Fire" -> EvFire(el.entity)
      [] OTHER -> EvAction(el.entity)

RECURSIVE EvElements(_, _)
EvElements(elements, top) ==
    IF elements = <<>>
    THEN <<>>
    ELSE (IF IsTop(Head(elements)) = top THEN EvElement(Head(elements)) ELSE <<>>)
         \o EvElements(Tail(elements), top)

Events(bulletml) ==
    EvElements(bulletml.elements, FALSE) \o EvElements(bulletml.elements, TRUE)

----------------------------------------------------------------------------
(* Compilation on its own: BulletML::new applied to small scripts *)

MaxElements == 2

La == <<"a">>

Lb == <<"b">>

Lto == <<"t", "o">>

Ltop == <<"t", "o", "p">>

LtopA == <<"t", "o", "p", "A">>

\* A bullet without direction, speed or actions: <bullet/>.
PlainBullet == Bullet(None, None, None, <<>>)

CompileBodies ==
    { <<>>,
      <<StepVanish>>,
      <<StepAction(Ref(La))>>,
      <<StepFire(Ref(La))>>,
      <<StepFire(Real(Fire(None, None, None, Ref(La))))>>,
      <<StepAction(Real(Action(Some(La), <<StepWait(Float(4))>>)))>>,
      <<StepRepeat(Float(4), <<Ref(La)>>)>>,
      <<StepVanish, StepAction(Ref(Lb))>> }

CompileElements ==
    {Element("Action", Action(l, b)) :
        l \in {None, Some(La), Some(Ltop), Some(LtopA)}, b \in CompileBodies}
    \cup {Element("Action", Action(Some(Lto), <<StepVanish>>)),
          Element("Action", Action(Some(Lb), <<StepAction(Ref(La))>>))}
    \cup {Element("Bullet", Bullet(l, None, None, as)) :
            l \in {None, Some(La)},
            as \in {<<>>, <<Ref(La)>>, <<Real(Action(Some(La), <<>>))>>}}
    \cup {Element("Fire", Fire(l, None, None, b)) :
            l \in {None, Some(La)},
            b \in {Ref(La), Real(PlainBullet), Real(Bullet(Some(La), None, None, <<>>))}}

CompileScripts ==
    {BulletML("None", els) :
        els \in UNION {[1..n -> CompileElements] : n \in 0..MaxElements}}

CInit ==
    /\ script \in CompileScripts
    /\ compiled = [status |-> "none"]
    /\ tree = Idle /\ iter = Idle /\ yielded = Idle
    /\ runner = Idle /\ mgr = Idle /\ calls = Idle /\ host = Idle /\ calc = Idle /\ later = Idle

\* The call BulletML::new(script).
Compile ==
    /\ compiled.status = "none"
    /\ compiled' = BulletMLNew(script)
    /\ UNCHANGED <<tree, iter, yielded, script, runner, mgr, calls, host, calc, later>>

SpecCompile == CInit /\ [][Compile]_vars

\* The first position of a sequence at which P holds, 0 when there is none.
FirstIndex(seq, P(_, _)) ==
    IF \E i \in 1..Len(seq) : P(seq, i)
    THEN CHOOSE i \in 1..Len(seq) : P(seq, i) /\ \A j \in 1..(i - 1) : ~P(seq, j)
    ELSE 0

IsRefAt(evs, i) == evs[i].ev = "ref"

\* A registration of a label that an earlier entity of the same kind carries.
IsRepeatedDefAt(evs, i) ==
    /\ evs[i].ev = "def"
    /\ \E j \in 1..(i - 1) : evs[j] = evs[i]

\* A reference whose label no entity of its kind has registered before it.
IsUnregisteredRefAt(evs, i) ==
    /\ evs[i].ev = "ref"
    /\ ~\E j \in 1..(i - 1) : evs[j] = EvDef(evs[i].kind, evs[i].label)

\* C7: a script whose named references all name an entity registered before
\* the reference is reached (and that repeats no label) compiles.
C7_RegisteredReferenceCompiles ==
    LET evs == Events(script)
    IN  (/\ compiled.status # "none"
         /\ FirstIndex(evs, IsRefAt) # 0
         /\ FirstIndex(evs, IsUnregisteredRefAt) = 0
         /\ FirstIndex(evs, IsRepeatedDefAt) = 0)
        => compiled.status = "ok"

\* C8 as stated: two entities of one kind with the same label make
\* BulletML::new fail with the Duplicate error naming that kind and label.
C8_DuplicateAlwaysReported ==
    LET evs == Events(script)
        d   == FirstIndex(evs, IsRepeatedDefAt)
    IN  (compiled.status # "none" /\ d # 0)
        => /\ compiled.status = "err"
           /\ \E i \in 1..Len(evs) :
                 /\ IsRepeatedDefAt(evs, i)
                 /\ compiled.err = Duplicate(evs[i].kind, evs[i].label)

\* C8 amended: two entities of one kind with the same label make
\* BulletML::new fail, so that no executable tree exists; the error is the
\* Duplicate error naming the kind and the label when the second of the two
\* is reached before any named reference.
C8_DuplicateFails ==
    LET evs == Events(script)
        d   == FirstIndex(evs, IsRepeatedDefAt)
        r   == FirstIndex(evs, IsRefAt)
    IN  (compiled.status # "none" /\ d # 0)
        => /\ compiled.status = "err"
           /\ (r = 0 \/ d < r) => compiled.err = Duplicate(evs[d].kind, evs[d].label)

C8_Witness ==
    LET evs == Events(script)
        d   == FirstIndex(evs, IsRepeatedDefAt)
    IN  /\ compiled.status = "err"
        /\ d # 0
        /\ FirstIndex(evs, IsRefAt) = 0
        /\ Len(script.elements) = 2
        /\ compiled.err = Duplicate("action", La)

\* C9: when the first named reference that compilation reaches carries a label
\* that no entity of its kind has registered yet (nothing having failed
\* before), BulletML::new fails with CannotFind carrying that label.
C9_UnregisteredReferenceFails ==
    LET evs == Events(script)
        r   == FirstIndex(evs, IsRefAt)
        d   == FirstIndex(evs, IsRepeatedDefAt)
    IN  (/\ compiled.status # "none"
         /\ r # 0
         /\ IsUnregisteredRefAt(evs, r)
         /\ (d = 0 \/ r < d))
        => /\ compiled.status = "err"
           /\ compiled.err = CannotFind(evs[r].label)

C9_Witness ==
    LET evs == Events(script)
        r   == FirstIndex(evs, IsRefAt)
    IN  /\ compiled.status = "err"
        /\ r > 1
        /\ IsUnregisteredRefAt(evs, r)
        /\ FirstIndex(evs, IsRepeatedDefAt) = 0
        /\ compiled.err = CannotFind(Lb)

\* The kind of node a step of a source action stands for in the tree.
NodeKind(st) == IF st.step = "Action" THEN "Root" ELSE st.step

\* The top-level elements that are actions labelled "top...", in document order.
TopElements(bulletml) == SelectSeq(bulletml.elements, IsTop)

\* C10: after a successful compilation the root has one child per top-level
\* action whose label starts with "top", in document order, and no other.
C10_RootChildrenAreTopActions ==
    compiled.status = "ok" =>
        LET root == compiled.steps.zipper.node
            tops == TopElements(script)
        IN  /\ root.data.step = "Root"
            /\ Len(root.children) = Len(tops)
            /\ \A k \in 1..Len(tops) :
                  /\ root.children[k].data.step = "Root"
                  /\ [m \in 1..Len(root.children[k].children) |->
                          root.children[k].children[m].data.step]
                     = [m \in 1..Len(tops[k].entity.steps) |->
                            NodeKind(tops[k].entity.steps[m])]

C10_Witness ==
    /\ compiled.status = "ok"
    /\ Len(script.elements) = 2
    /\ Len(compiled.steps.zipper.node.children) = 1
    /\ script.elements[1].element = "Action"
    /\ script.elements[1].entity.label = Some(Lto)
    /\ script.elements[2].entity.label = Some(LtopA)
    /\ Len(compiled.steps.zipper.node.children[1].children) = 1

----------------------------------------------------------------------------
(* f32 values, counted in halves *)

\* The whole number n as a Value.
Whole(n) == 2 * n

\* a / b for b > 0, rounded toward zero.
TruncDiv(a, b) == IF a >= 0 THEN a \div b ELSE -((-a) \div b)

\* f32 multiplication, the product rounded toward zero to the next half.
fmul(a, b) == TruncDiv(a * b, 2)

\* f32 remainder (%): the result has the sign of the dividend.
frem(a, b) == IF a >= 0 THEN a % b ELSE -((-a) % b)

\* NaN among the halves: no count of halves that a script or a manager holds.
\* It is met only where a value is tested or clamped at once (a repeat's
\* times, a duration, a wait's frames).
F32_NAN == 16777216

\* f32::is_nan
f32_is_nan(v) == v = F32_NAN

\* Infinity among the halves, what a script's 1/0 evaluates to: above every
\* count of halves that a script or a manager holds.  It is met only as a
\* duration or a wait's frames, where it is clamped and cast at once.
F32_INFINITY == 16777217

\* u32::MAX.  The integers of the model end at 2^31 - 1, so the u32 of the
\* source is one bit narrower here and U32_MAX stands for 2^32 - 1.
U32_MAX == 2147483647

\* f32::max(0.): the other operand when one is NaN.
max0(v) == IF f32_is_nan(v) \/ v < 0 THEN 0 ELSE v

\* A cast of the whole part; ceil_u32 must not behave like it.
trunc_u32(v) ==
    IF f32_is_nan(v) \/ v <= 0
    THEN 0
    ELSE IF v = F32_INFINITY THEN U32_MAX ELSE v \div 2

\* v.ceil() as u32: the cast saturates, so nothing is below 0 or above
\* u32::MAX, and NaN is 0.
ceil_u32(v) ==
    IF f32_is_nan(v) \/ v <= 0
    THEN 0
    ELSE IF v = F32_INFINITY THEN U32_MAX ELSE (v + 1) \div 2

\* The panic of an addition that overflows where overflow is checked.
AddOverflow == [error |-> "attempt to add with overflow"]

\* a + b in u32.  A sum above u32::MAX panics in a build with overflow checks
\* and wraps in one without; which of the two the build is, is X.overflow_checks.
add_u32(X, a, b) ==
    IF a > U32_MAX - b
    THEN IF X.overflow_checks
         THEN [ok |-> FALSE, err |-> AddOverflow]
         ELSE [ok |-> TRUE, val |-> a - (U32_MAX - b) - 1]
    ELSE [ok |-> TRUE, val |-> a + b]

\* a - b in u32 where it wraps.  (In a build with overflow checks the sum that
\* could make a smaller than b has panicked before.)
sub_u32(a, b) == IF a >= b THEN a - b ELSE U32_MAX - (b - a) + 1

\* A cast that rounds to the nearest; as_usize must not behave like it.
as_usize_rounded(v) == (v + 1) \div 2

\* `times as usize` for times >= 1: the fraction is cut off.
as_usize(v) == v \div 2

----------------------------------------------------------------------------
(* data/expression.rs *)

\* Expr::Var(ExprVar::Named(name)) and Expr::Var(ExprVar::Rank)
Named(name) == [expr |-> "Var", var |-> "Named", name |-> name]

Rank == [expr |-> "Var", var |-> "Rank"]

\* ExpressionError::UndefinedVariable
UndefinedVariable(name) == [error |-> "UndefinedVariable", name |-> name]

\* Expression::eval on a literal or a variable; m is the manager, which is the
\* ExpressionContext.
eval(e, m) ==
    CASE e.expr = "Float" -> [ok |-> TRUE, val |-> e.v]
      [] e.expr = "Var" /\ e.var = "Rank" -> [ok |-> TRUE, val |-> m.rank]
      [] OTHER ->
            IF e.name \in DOMAIN m.vars
            THEN [ok |-> TRUE, val |-> m.vars[e.name]]
            ELSE [ok |-> FALSE, err |-> UndefinedVariable(e.name)]

\* Change::modify
modify(kind, value, current, duration) ==
    CASE kind = "Absolute" -> value
      [] kind = "Relative" -> value + current
      [] OTHER -> fmul(value, duration) + current

\* A turn by a quarter in every orientation; up must not behave like it.
up_in_any(orientation, dir) == dir - 180

\* Orientation::up
up(orientation, dir) ==
    IF orientation = "Horizontal" THEN dir - Whole(90) ELSE dir

----------------------------------------------------------------------------
(* data/expression/ast.rs: values and operators.  Where an expression is    *)
(* parsed, folded and evaluated, a Value (f32) is a sign and a fraction     *)
(* n/d in lowest terms: d = 0 is an infinity (n = 1) or NaN (n = 0), and    *)
(* zero carries its sign.  The arithmetic is exact: rounding to 24 bits is  *)
(* left out.                                                                *)

RECURSIVE GCD(_, _)
GCD(a, b) == IF b = 0 THEN a ELSE GCD(b, a % b)

NaN == [s |-> 1, n |-> 0, d |-> 0]

\* The value s * n / d.
Value(s, n, d) ==
    IF n = 0 /\ d = 0
    THEN NaN
    ELSE [s |-> s, n |-> n \div GCD(n, d), d |-> d \div GCD(n, d)]

is_nan(v) == v.n = 0 /\ v.d = 0

is_infinite(v) == v.n # 0 /\ v.d = 0

is_zero(v) == v.n = 0 /\ v.d # 0

\* -v
neg(v) == IF is_nan(v) THEN v ELSE [v EXCEPT !.s = -@]

\* l + r; a sum that is zero is -0 only when both are negative.
f_add(l, r) ==
    CASE is_nan(l) \/ is_nan(r) -> NaN
      [] is_infinite(l) /\ is_infinite(r) -> IF l.s = r.s THEN l ELSE NaN
      [] is_infinite(l) -> l
      [] is_infinite(r) -> r
      [] OTHER ->
            LET t == l.s * l.n * r.d + r.s * r.n * l.d
            IN  CASE t = 0 -> Value(IF l.s = -1 /\ r.s = -1 THEN -1 ELSE 1, 0, 1)
                  [] t > 0 -> Value(1, t, l.d * r.d)
                  [] OTHER -> Value(-1, -t, l.d * r.d)

\* l * r; zero times an infinity is 0/0.
f_mul(l, r) ==
    IF is_nan(l) \/ is_nan(r) THEN NaN ELSE Value(l.s * r.s, l.n * r.n, l.d * r.d)

\* l / r; a division by zero is an infinity, 0/0 and inf/inf are NaN.
f_div(l, r) ==
    IF is_nan(l) \/ is_nan(r) THEN NaN ELSE Value(l.s * r.s, l.n * r.d, l.d * r.n)

\* l % r: the remainder of the truncating division, with the sign of l.
f_rem(l, r) ==
    CASE is_nan(l) \/ is_nan(r) \/ is_infinite(l) \/ is_zero(r) -> NaN
      [] is_infinite(r) -> l
      [] OTHER -> Value(l.s, (l.n * r.d) % (r.n * l.d), l.d * r.d)

\* UnaryOp::eval
unary_eval(op, v) == neg(v)

\* BinaryOp::eval
binary_eval(op, l, r) ==
    CASE op = "Add" -> f_add(l, r)
      [] op = "Sub" -> f_add(l, neg(r))
      [] op = "Mul" -> f_mul(l, r)
      [] op = "Div" -> f_div(l, r)
      [] OTHER -> f_rem(l, r)

\* Expr::unary and Expr::binary; Float, Named and Rank are above.
unary(op, e) == [expr |-> "Unary", op |-> op, operand |-> e]

binary(op, lhs, rhs) == [expr |-> "Binary", op |-> op, lhs |-> lhs, rhs |-> rhs]

Rand == [expr |-> "Var", var |-> "Rand"]

\* Expr::constant_value
constant_value(e) == IF e.expr = "Float" THEN Some(e.v) ELSE None

RECURSIVE constant_fold(_)

\* The two arms of constant_fold, given the folded operands.
fold_unary(o, ne) ==
    IF is_some(constant_value(ne))
    THEN Float(unary_eval(o, unwrap(constant_value(ne))))
    ELSE unary(o, ne)

\* A fold that is content with a literal on the left; fold_binary must not
\* behave like it.
fold_binary_left(o, nl, nr) ==
    IF is_some(constant_value(nl))
    THEN Float(binary_eval(o, unwrap(constant_value(nl)), unwrap(constant_value(nl))))
    ELSE binary(o, nl, nr)

fold_binary(o, nl, nr) ==
    IF is_some(constant_value(nl)) /\ is_some(constant_value(nr))
    THEN Float(binary_eval(o, unwrap(constant_value(nl)), unwrap(constant_value(nr))))
    ELSE binary(o, nl, nr)

\* Expr::constant_fold
constant_fold(e) ==
    CASE e.expr = "Unary" -> fold_unary(e.op, constant_fold(e.operand))
      [] e.expr = "Binary" ->
            fold_binary(e.op, constant_fold(e.lhs), constant_fold(e.rhs))
      [] OTHER -> e

----------------------------------------------------------------------------
(* data/expression.rs: Expression::eval_expr.  ctx is the ExpressionContext: *)
(* vars is what get() knows, rank and rand what rank() and rand() return.    *)

\* Result::map(|r| o.eval(r))
eval_unary(o, r) == IF r.ok THEN [ok |-> TRUE, val |-> unary_eval(o, r.val)] ELSE r

\* The right operand's error before the left one's; eval_binary must not
\* behave like it.
eval_binary_right_first(o, l, r) ==
    CASE ~r.ok -> r
      [] ~l.ok -> l
      [] OTHER -> [ok |-> TRUE, val |-> binary_eval(o, l.val, r.val)]

\* l.and_then(|lr| r.map(|rr| o.eval(lr, rr)))
eval_binary(o, l, r) ==
    CASE ~l.ok -> l
      [] ~r.ok -> r
      [] OTHER -> [ok |-> TRUE, val |-> binary_eval(o, l.val, r.val)]

\* ctx.get(n).ok_or_else(|| undefined_variable(n))
eval_named(n, ctx) ==
    IF n \in DOMAIN ctx.vars
    THEN [ok |-> TRUE, val |-> ctx.vars[n]]
    ELSE [ok |-> FALSE, err |-> UndefinedVariable(n)]

RECURSIVE eval_expr(_, _)
eval_expr(e, ctx) ==
    CASE e.expr = "Unary" -> eval_unary(e.op, eval_expr(e.operand, ctx))
      [] e.expr = "Binary" ->
            eval_binary(e.op, eval_expr(e.lhs, ctx), eval_expr(e.rhs, ctx))
      [] e.expr = "Float" -> [ok |-> TRUE, val |-> e.v]
      [] e.var = "Rank" -> [ok |-> TRUE, val |-> ctx.rank]
      [] e.var = "Rand" -> [ok |-> TRUE, val |-> ctx.rand]
      [] OTHER -> eval_named(e.name, ctx)

----------------------------------------------------------------------------
(* data/expression/grammar.rs.  A text is a sequence of characters; a rule  *)
(* applied at position p gives the value it built and the position after    *)
(* what it consumed, or fails.  The alternatives of simple_expression start *)
(* with different characters, so the ordered choice is a choice on the      *)
(* character at p.                                                          *)

Digits == <<"0", "1", "2", "3", "4", "5", "6", "7", "8", "9">>

IsDigit(c) == \E i \in 1..10 : Digits[i] = c

DigitValue(c) == (CHOOSE i \in 1..10 : Digits[i] = c) - 1

Letters ==
    {"a", "b", "c", "d", "e", "f", "g", "h", "i", "j", "k", "l", "m",
     "n", "o", "p", "q", "r", "s", "t", "u", "v", "w", "x", "y", "z",
     "A", "B", "C", "D", "E", "F", "G", "H", "I", "J", "K", "L", "M",
     "N", "O", "P", "Q", "R", "S", "T", "U", "V", "W", "X", "Y", "Z", "_"}

Matched(v, p) == [ok |-> TRUE, val |-> v, pos |-> p]

NoMatch == [ok |-> FALSE]

\* rule __ = whitespace()*: the position after the blanks at p.
RECURSIVE whitespaces(_, _)
whitespaces(t, p) ==
    IF p <= Len(t) /\ t[p] \in {" ", "\t"} THEN whitespaces(t, p + 1) ELSE p

\* ['0'..='9']*: the position after the digits at p.
RECURSIVE digits(_, _)
digits(t, p) == IF p <= Len(t) /\ IsDigit(t[p]) THEN digits(t, p + 1) ELSE p

\* [letters]*: the position after the letters at p.
RECURSIVE letters(_, _)
letters(t, p) == IF p <= Len(t) /\ t[p] \in Letters THEN letters(t, p + 1) ELSE p

\* str::parse::<f32> on the digits t[p..q-1], and 10 to the number of them.
RECURSIVE Decimal(_, _, _)
Decimal(t, p, q) ==
    IF q <= p THEN 0 ELSE 10 * Decimal(t, p, q - 1) + DigitValue(t[q - 1])

RECURSIVE Pow10(_)
Pow10(k) == IF k = 0 THEN 1 ELSE 10 * Pow10(k - 1)

\* rule _float: digits+ "." digits*  /  "." digits+ ; i is the position of the
\* point when there is one after the leading digits at p.
float(t, p) ==
    LET i == digits(t, p)
        q == digits(t, i + 1)
    IN  IF i <= Len(t) /\ t[i] = "." /\ (i > p \/ q > i + 1)
        THEN Matched(Value(1, Decimal(t, p, i) * Pow10(q - i - 1) + Decimal(t, i + 1, q),
                           Pow10(q - i - 1)),
                     whitespaces(t, q))
        ELSE NoMatch

\* rule _integer: digits+
integer(t, p) ==
    IF digits(t, p) > p
    THEN Matched(Value(1, Decimal(t, p, digits(t, p)), 1), whitespaces(t, digits(t, p)))
    ELSE NoMatch

\* rule literal = float / integer
literal(t, p) ==
    CASE float(t, p).ok -> Matched(Float(float(t, p).val), float(t, p).pos)
      [] integer(t, p).ok -> Matched(Float(integer(t, p).val), integer(t, p).pos)
      [] OTHER -> NoMatch

\* rule varname: the letters t[p..q-1] as an ExprVar
varname(name) ==
    CASE name = <<"r", "a", "n", "k">> -> Rank
      [] name = <<"r", "a", "n", "d">> -> Rand
      [] OTHER -> Named(name)

\* rule _identifier = "$" varname
identifier(t, p) ==
    IF p <= Len(t) /\ t[p] = "$" /\ letters(t, p + 1) > p + 1
    THEN Matched(varname(SubSeq(t, p + 1, letters(t, p + 1) - 1)),
                 whitespaces(t, letters(t, p + 1)))
    ELSE NoMatch

\* Levels the other way round; Level must not behave like it.
LevelUpsideDown(c) ==
    CASE c \in {"+", "-"} -> 1
      [] c \in {"*", "/", "%"} -> 0
      [] OTHER -> -1

\* The precedence levels of binary_expression, the weakest first, and the
\* operator each character stands for.
Level(c) ==
    CASE c \in {"+", "-"} -> 0
      [] c \in {"*", "/", "%"} -> 1
      [] OTHER -> -1

BinaryOp(c) ==
    CASE c = "+" -> "Add"
      [] c = "-" -> "Sub"
      [] c = "*" -> "Mul"
      [] c = "/" -> "Div"
      [] OTHER -> "Mod"

RECURSIVE expression(_, _)
RECURSIVE simple_expression(_, _)
RECURSIVE climb(_, _, _)

\* OP_OPEN_PAREN e:expression() OP_CLOSE_PAREN { e }, given e
parenthesized(t, e) ==
    IF e.ok /\ e.pos <= Len(t) /\ t[e.pos] = ")"
    THEN Matched(e.val, whitespaces(t, e.pos + 1))
    ELSE NoMatch

\* OP_SUB e:expression() { Expr::unary(Negate, e) }, given e
negated(e) == IF e.ok THEN Matched(unary("Negate", e.val), e.pos) ELSE NoMatch

\* rule simple_expression
simple_expression(t, p) ==
    CASE p > Len(t) -> NoMatch
      [] t[p] = "(" -> parenthesized(t, expression(t, whitespaces(t, p + 1)))
      [] t[p] = "-" -> negated(expression(t, whitespaces(t, p + 1)))
      [] t[p] = "$" -> identifier(t, p)
      [] OTHER -> literal(t, p)

\* x:(@) OP y:@ { Expr::binary(op, x, y) }: x and the operator are matched, y
\* is what the next level up gave after the operator.  Without y the
\* operator is not consumed and the expression ends before it.
infix(t, x, y, min) ==
    IF y.ok
    THEN climb(t, Matched(binary(BinaryOp(t[x.pos]), x.val, y.val), y.pos), min)
    ELSE x

\* precedence!{}: x is the expression so far; an operator of level min or
\* above takes an operand of the levels above its own, and the result is the
\* expression so far for what follows.
climb(t, x, min) ==
    IF x.ok /\ x.pos <= Len(t) /\ Level(t[x.pos]) >= min
    THEN infix(t, x,
               climb(t, simple_expression(t, whitespaces(t, x.pos + 1)),
                     Level(t[x.pos]) + 1),
               min)
    ELSE x

\* rule binary_expression
binary_expression(t, p) == climb(t, simple_expression(t, p), 0)

\* first / second of an ordered choice, given what the first made of it
or_else(first, t, p) == IF first.ok THEN first ELSE simple_expression(t, p)

\* rule expression = binary_expression / simple_expression
expression(t, p) == or_else(binary_expression(t, p), t, p)

\* ExpressionError::ParseFailure
ParseFailure == [error |-> "ParseFailure"]

\* grammar::expression(text): the rule has to consume the text to its end.
to_the_end(t, e) ==
    IF e.ok /\ e.pos = Len(t) + 1
    THEN [ok |-> TRUE, val |-> e.val]
    ELSE [ok |-> FALSE, err |-> ParseFailure]

grammar_expression(t) == to_the_end(t, expression(t, 1))

\* Expression::eval, on the tree that Expression::parse left
ExpressionEval(e, ctx) == eval_expr(e, ctx)

----------------------------------------------------------------------------
(* Expressions on their own: a text is parsed, the tree is folded and the   *)
(* folded tree is evaluated in a context.                                   *)

MaxLiteral == 4

\* The operands of the texts: the literals 0 .. MaxLiteral, two names and $rank.
AtomTexts ==
    {<<Digits[k + 1]>> : k \in 0..MaxLiteral}
    \cup {<<"$", "x">>, <<"$", "y">>, <<"$", "r", "a", "n", "k">>}

OpChars == {"+", "-", "*", "/", "%"}

\* 2*(1-2*4), 4/(2+1), "1.5 + .5", $rand, and texts that are no expression.
OtherTexts ==
    {<<"2", "*", "(", "1", "-", "2", "*", "4", ")">>,
     <<"4", "/", "(", "2", "+", "1", ")">>,
     <<"1", ".", "5", " ", "+", " ", ".", "5">>,
     <<"1", "2", "%", "5">>,
     <<"$", "r", "a", "n", "d">>,
     <<>>, <<"(">>, <<"+">>, <<"4", "+">>, <<" ", "1">>, <<"1", ")">>,
     <<"$">>, <<".">>, <<"(", "1">>, <<"1", " ", "2">>}

Texts ==
    AtomTexts
    \cup {a \o <<o>> \o b : a \in AtomTexts, o \in OpChars, b \in AtomTexts}
    \cup {a \o <<o[1]>> \o b \o <<o[2]>> \o c :
            a \in AtomTexts, b \in AtomTexts, c \in AtomTexts,
            o \in OpChars \X OpChars}
    \cup {<<"(">> \o a \o <<o[1]>> \o b \o <<")", o[2]>> \o c :
            a \in AtomTexts, b \in AtomTexts, c \in AtomTexts,
            o \in OpChars \X OpChars}
    \cup {a \o <<o[1], "(">> \o b \o <<o[2]>> \o c \o <<")">> :
            a \in AtomTexts, b \in AtomTexts, c \in AtomTexts,
            o \in OpChars \X OpChars}
    \cup {<<"-">> \o a : a \in AtomTexts}
    \cup {<<"-", "(", "-">> \o a \o <<")">> : a \in AtomTexts}
    \cup {<<"-">> \o a \o <<o>> \o b : a \in AtomTexts, o \in OpChars, b \in AtomTexts}
    \cup {a \o <<o, "-">> \o b : a \in AtomTexts, o \in OpChars, b \in AtomTexts}
    \cup OtherTexts

\* The contexts: $x is known in one of them, $y in none.
Contexts ==
    {[vars |-> v, rank |-> Value(1, 1, 2), rand |-> Value(1, 1, 4)] :
        v \in {EmptyMap, [n \in {<<"x">>} |-> Value(1, 2, 1)]}}

EInit ==
    /\ calc \in {[text |-> t, ctx |-> c, stage |-> "text",
                  ast |-> None, expression |-> None, value |-> None] :
                    t \in Texts, c \in Contexts}
    /\ tree = Idle /\ iter = Idle /\ yielded = Idle
    /\ script = Idle /\ compiled = Idle /\ runner = Idle
    /\ mgr = Idle /\ calls = Idle /\ host = Idle /\ later = Idle

\* grammar::expression(text)
ParseText ==
    /\ calc.stage = "text"
    /\ calc' = [calc EXCEPT !.stage = "parsed",
                            !.ast = Some(grammar_expression(calc.text))]
    /\ UNCHANGED <<tree, iter, yielded, script, compiled, runner, mgr, calls, host, later>>

\* Expression::parse, from the tree on: Expression { expr: expr.constant_fold() }
Fold ==
    /\ calc.stage = "parsed"
    /\ unwrap(calc.ast).ok
    /\ calc' = [calc EXCEPT !.stage = "folded",
                            !.expression = Some(constant_fold(unwrap(calc.ast).val))]
    /\ UNCHANGED <<tree, iter, yielded, script, compiled, runner, mgr, calls, host, later>>

\* Expression::eval(ctx)
Eval ==
    /\ calc.stage = "folded"
    /\ calc' = [calc EXCEPT !.stage = "evaluated",
                            !.value = Some(ExpressionEval(unwrap(calc.expression),
                                                          calc.ctx))]
    /\ UNCHANGED <<tree, iter, yielded, script, compiled, runner, mgr, calls, host, later>>

ENext == ParseText \/ Fold \/ Eval

SpecExpression == EInit /\ [][ENext]_vars

----------------------------------------------------------------------------
(* run/manager.rs: the host's bullet.  A command is recorded in calls, and  *)
(* the bullet's speed, direction and axis speeds become what it was told.   *)

command(X, name, args) ==
    [X EXCEPT
        !.calls = Append(@, [call |-> name, args |-> args]),
        !.mgr = CASE name = "change_speed" -> [@ EXCEPT !.speed = args[1]]
                  [] name = "change_direction" -> [@ EXCEPT !.direction = args[1]]
                  [] name = "accel_x" -> [@ EXCEPT !.speed_x = args[1]]
                  [] name = "accel_y" -> [@ EXCEPT !.speed_y = args[1]]
                  [] OTHER -> @]

----------------------------------------------------------------------------
(* run/runner.rs *)

\* Function::new; step is the quotient (end - start) / (max - min), kept as
\* its numerator and denominator.
FunctionNew(min, max, start, end) ==
    [min |-> min, max |-> max, start |-> start, end |-> end,
     step |-> [num |-> end - start, den |-> sub_u32(max, min)]]

\* A line through (0, start) and not through (min, start); call must not
\* behave like it.
call_from_zero(f, x) == f.start + TruncDiv(f.step.num * x, f.step.den)

\* Function::call
call(f, x) == f.start + TruncDiv(f.step.num * (x - f.min), f.step.den)

\* Function::is_in_domain
is_in_domain(f, x) == f.min <= x /\ x < f.max

\* The value a function starts from; last must not behave like it.
initial(f) == f.start

\* Function::last
last(f) == f.end

\* State::new
StateNew(orientation) ==
    [orientation |-> orientation,
     prev_dir |-> None, change_dir |-> None,
     prev_speed |-> None, change_speed |-> None,
     accel_x |-> None, accel_y |-> None,
     next |-> None]

\* State::update_function
update_function(f, turn) ==
    IF is_in_domain(f, turn)
    THEN [cont |-> TRUE, v |-> call(f, turn)]
    ELSE [cont |-> FALSE, v |-> last(f)]

\* A run of a slot's function that does not report it; run_function must not
\* behave like it.
run_function_unreported(X, slot, turn, cb) ==
    IF is_some(X.st[slot])
    THEN [updated |-> FALSE,
          X |-> IF ~update_function(unwrap(X.st[slot]), turn).cont
                THEN [command(X, cb, <<update_function(unwrap(X.st[slot]), turn).v>>)
                          EXCEPT !.st[slot] = None]
                ELSE command(X, cb, <<update_function(unwrap(X.st[slot]), turn).v>>)]
    ELSE [updated |-> FALSE, X |-> X]

\* run_function!: X is the runner while update() runs: st the State, it the
\* cursor (bulletml.steps), mgr the manager, calls its commands so far.
run_function(X, slot, turn, cb) ==
    IF is_some(X.st[slot])
    THEN LET r  == update_function(unwrap(X.st[slot]), turn)
             X1 == command(X, cb, <<r.v>>)
         IN  [updated |-> TRUE,
              X |-> IF ~r.cont THEN [X1 EXCEPT !.st[slot] = None] ELSE X1]
    ELSE [updated |-> FALSE, X |-> X]

\* State::update_functions
update_functions(X) ==
    LET turn == X.mgr.turn
        d    == run_function(X, "change_dir", turn, "change_direction")
        s    == run_function(d.X, "change_speed", turn, "change_speed")
        ax   == run_function(s.X, "accel_x", turn, "accel_x")
        ay   == run_function(ax.X, "accel_y", turn, "accel_y")
    IN  [updated |-> d.updated \/ s.updated \/ ax.updated \/ ay.updated,
         X |-> ay.X]

\* What a run_* method hands back: Ok(status) with the runner as it left it,
\* or the evaluation error.
Continue(X) == [ok |-> TRUE, status |-> "Continue", X |-> X]

End(X) == [ok |-> TRUE, status |-> "End", X |-> X]

NewSteps(steps, X) == [ok |-> TRUE, status |-> "NewSteps", steps |-> steps, X |-> X]

Fail(e, X) == [ok |-> FALSE, err |-> e.err, X |-> X]

\* State::speed_func: Ok(None) without an element, else the function.
speed_func(X, accel, init_speed, turn, duration) ==
    IF ~is_some(accel)
    THEN [ok |-> TRUE, val |-> None]
    ELSE LET change == eval(unwrap(accel).change, X.mgr)
         IN  IF ~change.ok
             THEN change
             ELSE LET final_speed ==
                          modify(unwrap(accel).kind, change.val, init_speed, duration)
                      max == add_u32(X, turn, ceil_u32(duration))
                  IN  IF ~max.ok
                      THEN max
                      ELSE [ok |-> TRUE,
                            val |-> Some(FunctionNew(turn, max.val,
                                                     init_speed, final_speed))]

\* An accel that takes no notice of the orientation; run_accel must not
\* behave like it.
run_accel_upright(X, accel) ==
    LET d == eval(accel.duration.value, X.mgr)
    IN  IF ~d.ok
        THEN Fail(d, X)
        ELSE LET fx == speed_func(X, accel.horizontal, X.mgr.speed_x,
                                  X.mgr.turn, max0(d.val))
                 fy == speed_func(X, accel.vertical, X.mgr.speed_y,
                                  X.mgr.turn, max0(d.val))
             IN  IF ~fx.ok
                 THEN Fail(fx, X)
                 ELSE IF ~fy.ok
                 THEN Fail(fy, [X EXCEPT !.st.accel_x = fx.val])
                 ELSE Continue([X EXCEPT !.st.accel_x = fx.val, !.st.accel_y = fy.val])

\* An accel that leaves a slot alone when it has no element for the axis;
\* run_accel must not behave like it.
run_accel_given_axes(X, accel) ==
    LET d == eval(accel.duration.value, X.mgr)
    IN  IF ~d.ok
        THEN Fail(d, X)
        ELSE LET duration == max0(d.val)
                 turn     == X.mgr.turn
                 swapped  == X.st.orientation = "Horizontal"
                 fx == speed_func(X, IF swapped THEN accel.vertical ELSE accel.horizontal,
                                  X.mgr.speed_x, turn, duration)
             IN  IF ~fx.ok
                 THEN Fail(fx, X)
                 ELSE LET X1 == IF is_some(fx.val)
                                THEN [X EXCEPT !.st.accel_x = fx.val]
                                ELSE X
                          fy == speed_func(X1,
                                           IF swapped THEN accel.horizontal
                                           ELSE accel.vertical,
                                           X1.mgr.speed_y, turn, duration)
                      IN  IF ~fy.ok
                          THEN Fail(fy, X1)
                          ELSE IF is_some(fy.val)
                          THEN Continue([X1 EXCEPT !.st.accel_y = fy.val])
                          ELSE Continue(X1)

\* State::run_accel
run_accel(X, accel) ==
    LET d == eval(accel.duration.value, X.mgr)
    IN  IF ~d.ok
        THEN Fail(d, X)
        ELSE LET duration == max0(d.val)
                 turn     == X.mgr.turn
                 swapped  == X.st.orientation = "Horizontal"
                 fx == speed_func(X, IF swapped THEN accel.vertical ELSE accel.horizontal,
                                  X.mgr.speed_x, turn, duration)
             IN  IF ~fx.ok
                 THEN Fail(fx, X)
                 ELSE LET X1 == [X EXCEPT !.st.accel_x = fx.val]
                          fy == speed_func(X1,
                                           IF swapped THEN accel.horizontal
                                           ELSE accel.vertical,
                                           X1.mgr.speed_y, turn, duration)
                      IN  IF ~fy.ok
                          THEN Fail(fy, X1)
                          ELSE Continue([X1 EXCEPT !.st.accel_y = fy.val])

\* A direction whose first step of a sequence starts from the aim plus the
\* step; target_direction must not behave like it.
target_direction_stepping(X, kind, degrees) ==
    frem(CASE kind = "Aim" -> degrees + X.mgr.aim_direction
           [] kind = "Absolute" -> up(X.st.orientation, degrees)
           [] kind = "Relative" -> degrees + X.mgr.direction
           [] OTHER -> IF is_some(X.st.prev_dir)
                       THEN degrees + unwrap(X.st.prev_dir)
                       ELSE degrees + X.mgr.aim_direction,
         Whole(360))

\* State::target_direction
target_direction(X, kind, degrees) ==
    LET dir == CASE kind = "Aim" -> degrees + X.mgr.aim_direction
                 [] kind = "Absolute" -> up(X.st.orientation, degrees)
                 [] kind = "Relative" -> degrees + X.mgr.direction
                 [] OTHER -> IF is_some(X.st.prev_dir)
                             THEN degrees + unwrap(X.st.prev_dir)
                             ELSE X.mgr.aim_direction
    IN  frem(dir, Whole(360))

\* State::target_direction_data
target_direction_data(X, direction) ==
    LET degrees == eval(direction.degrees, X.mgr)
    IN  IF ~degrees.ok
        THEN degrees
        ELSE [ok |-> TRUE, val |-> target_direction(X, direction.kind, degrees.val)]

\* A changeDirection that also records its target as the direction of the
\* latest fire; run_change_direction must not behave like it.
run_change_direction_as_fire(X, cd) ==
    LET d == eval(cd.value.value, X.mgr)
    IN  IF ~d.ok
        THEN Fail(d, X)
        ELSE LET duration == max0(d.val)
                 cur_dir  == X.mgr.direction
                 degrees  == eval(cd.direction.degrees, X.mgr)
             IN  IF ~degrees.ok
                 THEN Fail(degrees, X)
                 ELSE LET final_dir ==
                              IF cd.direction.kind = "Sequence"
                              THEN fmul(duration, degrees.val) + cur_dir
                              ELSE target_direction(X, cd.direction.kind, degrees.val)
                          turn == X.mgr.turn
                          max  == add_u32(X, turn, ceil_u32(duration))
                      IN  IF ~max.ok
                          THEN Fail(max, X)
                          ELSE Continue([X EXCEPT !.st.change_dir =
                                             Some(FunctionNew(turn, max.val,
                                                              cur_dir, final_dir)),
                                         !.st.prev_dir = Some(final_dir)])

\* State::run_change_direction
run_change_direction(X, cd) ==
    LET d == eval(cd.value.value, X.mgr)
    IN  IF ~d.ok
        THEN Fail(d, X)
        ELSE LET duration == max0(d.val)
                 cur_dir  == X.mgr.direction
                 degrees  == eval(cd.direction.degrees, X.mgr)
             IN  IF ~degrees.ok
                 THEN Fail(degrees, X)
                 ELSE LET final_dir ==
                              IF cd.direction.kind = "Sequence"
                              THEN fmul(duration, degrees.val) + cur_dir
                              ELSE target_direction(X, cd.direction.kind, degrees.val)
                          turn == X.mgr.turn
                          max  == add_u32(X, turn, ceil_u32(duration))
                      IN  IF ~max.ok
                          THEN Fail(max, X)
                          ELSE Continue([X EXCEPT !.st.change_dir =
                                   Some(FunctionNew(turn, max.val, cur_dir, final_dir))])

\* A sequence that starts from the bullet's own speed; target_speed must not
\* behave like it.
target_speed_from_current(X, kind, value) ==
    CASE kind = "Absolute" -> value
      [] kind = "Relative" -> value + X.mgr.speed
      [] OTHER -> IF is_some(X.st.prev_speed)
                  THEN value + unwrap(X.st.prev_speed)
                  ELSE X.mgr.speed

\* State::target_speed
target_speed(X, kind, value) ==
    CASE kind = "Absolute" -> value
      [] kind = "Relative" -> value + X.mgr.speed
      [] OTHER -> IF is_some(X.st.prev_speed)
                  THEN value + unwrap(X.st.prev_speed)
                  ELSE Whole(1)

\* State::target_speed_data
target_speed_data(X, speed) ==
    LET change == eval(speed.change, X.mgr)
    IN  IF ~change.ok
        THEN change
        ELSE [ok |-> TRUE, val |-> target_speed(X, speed.kind, change.val)]

\* A changeSpeed that leaves a function that is still installed where it is;
\* run_change_speed must not behave like it.
run_change_speed_unless_busy(X, cs) ==
    IF is_some(X.st.change_speed)
    THEN Continue(X)
    ELSE
        LET d == eval(cs.value.value, X.mgr)
        IN  IF ~d.ok
            THEN Fail(d, X)
            ELSE LET duration  == max0(d.val)
                     cur_speed == X.mgr.speed
                     change    == eval(cs.speed.change, X.mgr)
                 IN  IF ~change.ok
                     THEN Fail(change, X)
                     ELSE LET final_speed ==
                                  IF cs.speed.kind = "Sequence"
                                  THEN fmul(duration, change.val) + cur_speed
                                  ELSE target_speed(X, cs.speed.kind, change.val)
                              turn == X.mgr.turn
                              max  == add_u32(X, turn, ceil_u32(duration))
                          IN  IF ~max.ok
                              THEN Fail(max, X)
                              ELSE Continue([X EXCEPT !.st.change_speed =
                                       Some(FunctionNew(turn, max.val,
                                                        cur_speed, final_speed))])

\* State::run_change_speed
run_change_speed(X, cs) ==
    LET d == eval(cs.value.value, X.mgr)
    IN  IF ~d.ok
        THEN Fail(d, X)
        ELSE LET duration  == max0(d.val)
                 cur_speed == X.mgr.speed
                 change    == eval(cs.speed.change, X.mgr)
             IN  IF ~change.ok
                 THEN Fail(change, X)
                 ELSE LET final_speed ==
                              IF cs.speed.kind = "Sequence"
                              THEN fmul(duration, change.val) + cur_speed
                              ELSE target_speed(X, cs.speed.kind, change.val)
                          turn == X.mgr.turn
                          max  == add_u32(X, turn, ceil_u32(duration))
                      IN  IF ~max.ok
                          THEN Fail(max, X)
                          ELSE Continue([X EXCEPT !.st.change_speed =
                                   Some(FunctionNew(turn, max.val,
                                                    cur_speed, final_speed))])

\* Option<&Direction>.map(target_direction_data).transpose(): Ok(None) for a
\* missing element.
opt_direction(X, direction) ==
    IF ~is_some(direction)
    THEN [ok |-> TRUE, val |-> None]
    ELSE LET r == target_direction_data(X, unwrap(direction))
         IN  IF ~r.ok THEN r ELSE [ok |-> TRUE, val |-> Some(r.val)]

\* A speed that falls back on the bullet's own speed where the element is
\* missing; opt_speed must not behave like it.
opt_speed_or_current(X, speed) ==
    IF ~is_some(speed)
    THEN [ok |-> TRUE, val |-> Some(X.mgr.speed)]
    ELSE IF target_speed_data(X, unwrap(speed)).ok
    THEN [ok |-> TRUE, val |-> Some(target_speed_data(X, unwrap(speed)).val)]
    ELSE target_speed_data(X, unwrap(speed))

opt_speed(X, speed) ==
    IF ~is_some(speed)
    THEN [ok |-> TRUE, val |-> None]
    ELSE LET r == target_speed_data(X, unwrap(speed))
         IN  IF ~r.ok THEN r ELSE [ok |-> TRUE, val |-> Some(r.val)]

\* A choice that prefers the second of two options; or must not behave like
\* it.
or_latter(a, b) == IF is_some(b) THEN b ELSE a

\* Option::or
or(a, b) == IF is_some(a) THEN a ELSE b

\* A fire that spawns a default bullet before it looks at its expressions;
\* run_fire must not behave like it.
run_fire_spawning_first(X, fire) ==
    CASE ~opt_direction(X, fire.direction).ok ->
            Fail(opt_direction(X, fire.direction),
                 command(X, "new_simple", <<X.mgr.aim_direction, X.mgr.default_speed>>))
      [] ~opt_speed(X, fire.speed).ok ->
            Fail(opt_speed(X, fire.speed),
                 command(X, "new_simple", <<X.mgr.aim_direction, X.mgr.default_speed>>))
      [] OTHER ->
            Continue(command(X, "new_simple",
                             <<X.mgr.aim_direction, X.mgr.default_speed>>))

\* State::run_fire
run_fire(X, fire) ==
    LET fire_dir == opt_direction(X, fire.direction)
    IN  IF ~fire_dir.ok THEN Fail(fire_dir, X) ELSE
    LET fire_speed == opt_speed(X, fire.speed)
    IN  IF ~fire_speed.ok THEN Fail(fire_speed, X) ELSE
    LET bullet     == fire.bullet
        bullet_dir == opt_direction(X, bullet.direction)
    IN  IF ~bullet_dir.ok THEN Fail(bullet_dir, X) ELSE
    LET bullet_speed == opt_speed(X, bullet.speed)
    IN  IF ~bullet_speed.ok THEN Fail(bullet_speed, X) ELSE
    LET dir   == IF is_some(or(bullet_dir.val, fire_dir.val))
                 THEN unwrap(or(bullet_dir.val, fire_dir.val))
                 ELSE X.mgr.aim_direction
        speed == IF is_some(or(bullet_speed.val, fire_speed.val))
                 THEN unwrap(or(bullet_speed.val, fire_speed.val))
                 ELSE X.mgr.default_speed
        X1    == [X EXCEPT !.st.prev_dir = Some(dir), !.st.prev_speed = Some(speed)]
    IN  Continue(command(X1,
                         IF Len(bullet.actions) = 0 THEN "new_simple" ELSE "new",
                         <<dir, speed>>))

\* State::run_repeat
run_repeat(X, repeat) ==
    LET times == eval(repeat.times.value, X.mgr)
    IN  IF ~times.ok
        THEN Fail(times, X)
        ELSE LET count == IF f32_is_nan(times.val) \/ times.val < Whole(1)
                          THEN 0
                          ELSE as_usize(times.val)
             IN  NewSteps(new_steps(repeat, count), X)

\* A vanish that lets the loop go on to the next node; run_vanish must not
\* behave like it.
run_vanish_and_go_on(X) == Continue(command(X, "vanish", <<>>))

\* State::run_vanish
run_vanish(X) == End(command(X, "vanish", <<>>))

\* State::run_wait
run_wait(X, wait) ==
    LET frames == IF is_some(X.st.next)
                  THEN [ok |-> TRUE, val |-> 0]
                  ELSE eval(wait.frames, X.mgr)
    IN  IF ~frames.ok
        THEN Fail(frames, X)
        ELSE LET nxt == IF is_some(X.st.next)
                        THEN [ok |-> TRUE, val |-> unwrap(X.st.next)]
                        ELSE add_u32(X, X.mgr.turn, ceil_u32(frames.val))
             IN  IF ~nxt.ok
                 THEN Fail(nxt, X)
                 ELSE IF nxt.val < X.mgr.turn
                 THEN End([X EXCEPT !.st.next = Some(nxt.val)])
                 ELSE Continue([X EXCEPT !.st.next = None])

\* The match of Runner::update (lines 408-417) on the node under the cursor.
run_node(X, data) ==
    CASE data.step = "Root" -> Continue(X)
      [] data.step = "Repeat" -> run_repeat(X, data.repeat)
      [] data.step = "Fire" -> run_fire(X, data.fire)
      [] data.step = "ChangeSpeed" -> run_change_speed(X, data.change_speed)
      [] data.step = "ChangeDirection" -> run_change_direction(X, data.change_direction)
      [] data.step = "Accel" -> run_accel(X, data.accel)
      [] data.step = "Wait" -> run_wait(X, data.wait)
      [] OTHER -> run_vanish(X)

\* steps.into_iter().for_each(|step| node.add_child(step))
RECURSIVE add_children(_, _)
add_children(it, steps) ==
    IF steps = <<>>
    THEN it
    ELSE add_children(iter_add_child(it, Head(steps)), Tail(steps))

\* The loop of Runner::update (lines 399-434).  X.seen lists the data of the
\* nodes interpreted by this call.
RECURSIVE update_loop(_, _)

\* A loop that goes on to the next node after End as it does after Continue;
\* after_node must not behave like it.
after_node_past_end(r) ==
    IF ~r.ok
    THEN [ret |-> [ok |-> FALSE, err |-> r.err], X |-> r.X]
    ELSE IF r.status = "NewSteps"
    THEN update_loop([r.X EXCEPT !.it = next(add_children(@, r.steps)).it], TRUE)
    ELSE update_loop([r.X EXCEPT !.it = next(@).it], TRUE)

\* What the loop does with the outcome r of a node (lines 408-433): an error
\* and End leave update(), NewSteps hangs the steps under the node, and the
\* loop goes on with the next node.
after_node(r) ==
    IF ~r.ok
    THEN [ret |-> [ok |-> FALSE, err |-> r.err], X |-> r.X]
    ELSE IF r.status = "End"
    THEN [ret |-> [ok |-> TRUE, val |-> TRUE], X |-> r.X]
    ELSE IF r.status = "NewSteps"
    THEN update_loop([r.X EXCEPT !.it = next(add_children(@, r.steps)).it], TRUE)
    ELSE update_loop([r.X EXCEPT !.it = next(@).it], TRUE)

\* A loop that, having nothing to report, makes the exhausted cursor ready to
\* yield again; update_loop must not behave like it.
update_loop_rewinding(X, updated) ==
    IF ~is_some(current_mut(X.it))
    THEN [ret |-> [ok |-> TRUE, val |-> updated],
          X   |-> [X EXCEPT !.it.done = updated]]
    ELSE after_node(run_node([X EXCEPT !.seen = Append(@, unwrap(current_mut(X.it)).data)],
                             unwrap(current_mut(X.it)).data))

update_loop(X, updated) ==
    IF ~is_some(current_mut(X.it))
    THEN [ret |-> [ok |-> TRUE, val |-> updated], X |-> X]
    ELSE after_node(run_node([X EXCEPT !.seen = Append(@, unwrap(current_mut(X.it)).data)],
                             unwrap(current_mut(X.it)).data))

\* An update that interprets the nodes first and runs the functions after
\* them; update must not behave like it.
update_nodes_first(X) ==
    [ret |-> update_loop(X, FALSE).ret,
     X   |-> update_functions(update_loop(X, FALSE).X).X]

\* Runner::update
update(X) ==
    LET u == update_functions(X)
    IN  update_loop(u.X, u.updated)

\* Runner::new: the State, and BulletML::new(bulletml)?
RunnerNew(bulletml) ==
    LET b == BulletMLNew(bulletml)
    IN  IF b.status = "ok"
        THEN [status |-> "ok", state |-> StateNew(bulletml.orientation), bulletml |-> b]
        ELSE b

----------------------------------------------------------------------------
(* The runner and its host: Runner::new on a script, then update() calls    *)
(* and ticks of the game in any order.                                      *)

MaxTurn == 12

MaxStartTurn == 1

\* <action label="top...">steps</action> as a top-level element
TopAction(label, steps) == Element("Action", Action(Some(label), steps))

\* <fire> with an inline <bullet/>
FireStep(direction, speed) ==
    StepFire(Real(Fire(None, direction, speed, Real(PlainBullet))))

\* S1: fire once with defaults.
ScriptFireOnce == BulletML("None", <<TopAction(Ltop, <<FireStep(None, None)>>)>>)

\* S2: [wait 3, vanish]
ScriptWaitVanish ==
    BulletML("None", <<TopAction(Ltop, <<StepWait(Float(Whole(3))), StepVanish>>)>>)

\* S3: [repeat 3 [fire]], the fire with direction absolute 0
ScriptRepeatFire ==
    BulletML("None",
        <<TopAction(Ltop,
            <<StepRepeat(Float(Whole(3)),
                <<Real(Action(None,
                    <<FireStep(Some(Direction("Absolute", Float(0))), None)>>))>>)>>)>>)

\* S4: changeSpeed, sequence, 0.5 a turn over 10 turns
ScriptChangeSpeed ==
    BulletML("None",
        <<TopAction(Ltop, <<StepChangeSpeed("Sequence", Float(1), Float(Whole(10)))>>)>>)

\* S6: two fires, each direction sequence 10
ScriptSequenceFires ==
    BulletML("None",
        <<TopAction(Ltop,
            <<FireStep(Some(Direction("Sequence", Float(Whole(10)))), None),
              FireStep(Some(Direction("Sequence", Float(Whole(10)))), None)>>)>>)

\* Two fires, each direction sequence 350.
ScriptSequenceWide ==
    BulletML("None",
        <<TopAction(Ltop,
            <<FireStep(Some(Direction("Sequence", Float(Whole(350)))), None),
              FireStep(Some(Direction("Sequence", Float(Whole(350)))), None)>>)>>)

\* A nested action, then a step of the outer action.
ScriptNestedThenStep ==
    BulletML("Vertical",
        <<TopAction(Ltop,
            <<StepAction(Real(Action(None, <<FireStep(None, None)>>))),
              FireStep(Some(Direction("Absolute", Float(Whole(90)))), None)>>)>>)

\* Two top-level actions.
ScriptTwoTops ==
    BulletML("None",
        <<TopAction(Ltop, <<FireStep(None, None)>>),
          TopAction(LtopA,
              <<FireStep(Some(Direction("Absolute", Float(Whole(90)))), None)>>)>>)

\* A repeat, then a step of the same action.
ScriptRepeatThenStep ==
    BulletML("None",
        <<TopAction(Ltop,
            <<StepRepeat(Float(Whole(2)), <<Real(Action(None, <<FireStep(None, None)>>))>>),
              StepChangeDirection("Relative", Float(Whole(30)), Float(Whole(2)))>>)>>)

\* A wait between two fires, the wait's length a variable of the host.
ScriptFireWaitFire ==
    BulletML("Horizontal",
        <<TopAction(Ltop,
            <<FireStep(None, Some(Speed("Relative", Float(1)))),
              StepWait(Named(<<"w">>)),
              FireStep(Some(Direction("Absolute", Float(0))), None)>>)>>)

\* A script that does not compile: the reference names nothing.
ScriptUnresolved ==
    BulletML("None", <<TopAction(Ltop, <<StepAction(Ref(Lb))>>)>>)

\* A change of speed to 3 over 2 turns, then a vanish.
ScriptChangeSpeedVanish ==
    BulletML("None",
        <<TopAction(Ltop,
            <<StepChangeSpeed("Absolute", Float(Whole(3)), Float(Whole(2))), StepVanish>>)>>)

\* A turn to 90 degrees over 2 turns.
ScriptChangeDirection ==
    BulletML("None",
        <<TopAction(Ltop,
            <<StepChangeDirection("Absolute", Float(Whole(90)), Float(Whole(2)))>>)>>)

\* A change of speed that is over at once, then a vanish.
ScriptChangeSpeedNow ==
    BulletML("None",
        <<TopAction(Ltop,
            <<StepChangeSpeed("Relative", Float(Whole(2)), Float(0)), StepVanish>>)>>)

\* In horizontal orientation, <accel><horizontal>1</horizontal></accel> over
\* one turn.
ScriptAccelHorizontal ==
    BulletML("Horizontal",
        <<TopAction(Ltop,
            <<StepAccel(Some(Horizontal("Absolute", Float(Whole(1)))), None,
                        Float(Whole(1)))>>)>>)

\* One accel in each orientation, with and without each of its two elements,
\* over one turn and over two.
AccelScripts ==
    {BulletML(o, <<TopAction(Ltop, <<StepAccel(h, v, Float(Whole(n)))>>)>>) :
        o \in {"None", "Vertical", "Horizontal"},
        h \in {None, Some(Horizontal("Absolute", Float(Whole(1))))},
        v \in {None, Some(Vertical("Relative", Float(Whole(2))))},
        n \in 1..2}

\* One fire of an inline bullet, each of the fire's and the bullet's direction
\* and speed given or not, the bullet with and without an action.
FireScripts ==
    {BulletML("None",
         <<TopAction(Ltop,
             <<StepFire(Real(Fire(None, fd, fs, Real(Bullet(None, bd, bs, as)))))>>)>>) :
        fd \in {None, Some(Direction("Absolute", Float(Whole(90))))},
        fs \in {None, Some(Speed("Absolute", Float(Whole(2))))},
        bd \in {None, Some(Direction("Aim", Float(Whole(10))))},
        bs \in {None, Some(Speed("Relative", Float(1)))},
        as \in {<<>>, <<Real(Action(None, <<StepVanish>>))>>}}

\* A step with the name $w, or $u and $w, in one of its expressions.
StepsWithNames ==
    {FireStep(Some(Direction("Absolute", Named(<<"w">>))), None),
     FireStep(None, Some(Speed("Absolute", Named(<<"w">>)))),
     FireStep(Some(Direction("Absolute", Named(<<"u">>))),
              Some(Speed("Absolute", Named(<<"w">>)))),
     StepFire(Real(Fire(None, None, None,
         Real(Bullet(None, Some(Direction("Aim", Named(<<"w">>))), None, <<>>))))),
     StepFire(Real(Fire(None, Some(Direction("Absolute", Float(Whole(90)))), None,
         Real(Bullet(None, None, Some(Speed("Relative", Named(<<"w">>))), <<>>))))),
     StepChangeSpeed("Absolute", Named(<<"w">>), Float(Whole(2))),
     StepChangeSpeed("Absolute", Float(Whole(3)), Named(<<"w">>)),
     StepChangeDirection("Absolute", Named(<<"w">>), Float(Whole(2))),
     StepChangeDirection("Aim", Float(Whole(10)), Named(<<"w">>)),
     StepAccel(Some(Horizontal("Absolute", Named(<<"w">>))), None, Float(Whole(2))),
     StepAccel(None, Some(Vertical("Relative", Float(Whole(1)))), Named(<<"w">>)),
     StepRepeat(Named(<<"w">>), <<Real(Action(None, <<FireStep(None, None)>>))>>)}

\* A plain fire, one of the steps above, and a vanish.
NameScripts ==
    {BulletML("None", <<TopAction(Ltop, <<FireStep(None, None), step, StepVanish>>)>>) :
        step \in StepsWithNames}

MaxTimes == 5

\* [repeat times [actions], vanish], the times NaN or -1, -0.5, 0, .. up to
\* MaxTimes halves, the actions [vanish] alone or [vanish] and [fire, vanish].
RepeatScripts ==
    {BulletML("None",
         <<TopAction(Ltop, <<StepRepeat(Float(times), actions), StepVanish>>)>>) :
        times \in {F32_NAN} \cup (-2)..MaxTimes,
        actions \in {<<Real(Action(None, <<StepVanish>>))>>,
                     <<Real(Action(None, <<StepVanish>>)),
                       Real(Action(None, <<FireStep(None, None), StepVanish>>))>>}}

DirectionKinds == {"Aim", "Absolute", "Relative", "Sequence"}

\* Two fires in each orientation, the first with a direction of each kind and
\* 350 degrees, the second of each kind with -100 and with 350 degrees.
DirectionScripts ==
    {BulletML(o,
         <<TopAction(Ltop,
             <<FireStep(Some(Direction(k[1], Float(Whole(350)))), None),
               FireStep(Some(Direction(k[2], Float(Whole(d)))), None)>>)>>) :
        o \in {"None", "Vertical", "Horizontal"},
        k \in DirectionKinds \X DirectionKinds,
        d \in {-100, 350}}

Changes == {"Absolute", "Relative", "Sequence"}

\* Two fires, the first with a speed of each kind and the value 2.5, the
\* second of each kind with -1 and with 2.5.
SpeedScripts ==
    {BulletML("None",
         <<TopAction(Ltop,
             <<FireStep(None, Some(Speed(k[1], Float(5)))),
               FireStep(None, Some(Speed(k[2], Float(v))))>>)>>) :
        k \in Changes \X Changes,
        v \in {-2, 5}}

MaxDuration == 3

\* One changeSpeed, changeDirection or accel, absolute and sequence, with a
\* duration that is NaN or -1, -0.5, 0, .. up to MaxDuration halves.
DurationScripts ==
    {BulletML("None", <<TopAction(Ltop, <<step>>)>>) :
        step \in UNION {
            {StepChangeSpeed("Absolute", Float(Whole(3)), Float(d)),
             StepChangeSpeed("Sequence", Float(1), Float(d)),
             StepChangeDirection("Absolute", Float(Whole(90)), Float(d)),
             StepChangeDirection("Sequence", Float(Whole(10)), Float(d)),
             StepAccel(Some(Horizontal("Absolute", Float(Whole(1)))),
                       Some(Vertical("Relative", Float(Whole(2)))), Float(d)),
             StepAccel(Some(Horizontal("Sequence", Float(Whole(1)))),
                       Some(Vertical("Absolute", Float(Whole(2)))), Float(d))} :
            d \in {F32_NAN} \cup (-2)..MaxDuration}}

\* [vanish, fire]
ScriptVanishThenFire ==
    BulletML("None", <<TopAction(Ltop, <<StepVanish, FireStep(None, None)>>)>>)

\* [accel horizontal 1 vertical $w in 2 turns]
ScriptAccelHalfNamed ==
    BulletML("None",
        <<TopAction(Ltop,
            <<StepAccel(Some(Horizontal("Absolute", Float(Whole(1)))),
                        Some(Vertical("Absolute", Named(<<"w">>))),
                        Float(Whole(2)))>>)>>)

\* Speed to 7 and direction to 70 over 3 turns, and at once speed to 3 and
\* direction to 30 over 1 turn.
ScriptChangesReplaced ==
    BulletML("None",
        <<TopAction(Ltop,
            <<StepChangeSpeed("Absolute", Float(Whole(7)), Float(Whole(3))),
              StepChangeDirection("Absolute", Float(Whole(70)), Float(Whole(3))),
              StepChangeSpeed("Absolute", Float(Whole(3)), Float(Whole(1))),
              StepChangeDirection("Absolute", Float(Whole(30)), Float(Whole(1)))>>)>>)

\* Accel to 5 across and 6 along over 3 turns, and at once accel to 1 across
\* over 1 turn.
ScriptAccelReplaced ==
    BulletML("None",
        <<TopAction(Ltop,
            <<StepAccel(Some(Horizontal("Absolute", Float(Whole(5)))),
                        Some(Vertical("Absolute", Float(Whole(6)))),
                        Float(Whole(3))),
              StepAccel(Some(Horizontal("Absolute", Float(Whole(1)))), None,
                        Float(Whole(1)))>>)>>)

\* A fire at 10 degrees with speed 2, changes of every kind, and a fire in
\* sequence: 5 degrees on, 1 faster.
ScriptFireChangesFire ==
    BulletML("None",
        <<TopAction(Ltop,
            <<FireStep(Some(Direction("Absolute", Float(Whole(10)))),
                       Some(Speed("Absolute", Float(Whole(2))))),
              StepChangeSpeed("Absolute", Float(Whole(7)), Float(Whole(2))),
              StepChangeDirection("Absolute", Float(Whole(70)), Float(Whole(2))),
              StepAccel(Some(Horizontal("Absolute", Float(Whole(5)))),
                        Some(Vertical("Absolute", Float(Whole(6)))),
                        Float(Whole(2))),
              StepWait(Float(0)),
              StepRepeat(Float(0), <<Real(Action(None, <<StepVanish>>))>>),
              FireStep(Some(Direction("Sequence", Float(Whole(5)))),
                       Some(Speed("Sequence", Float(Whole(1)))))>>)>>)

RunnerScripts ==
    {ScriptFireOnce, ScriptWaitVanish, ScriptRepeatFire, ScriptChangeSpeed,
     ScriptSequenceFires, ScriptNestedThenStep, ScriptTwoTops,
     ScriptRepeatThenStep, ScriptFireWaitFire, ScriptUnresolved,
     ScriptChangeSpeedVanish, ScriptChangeDirection, ScriptChangeSpeedNow,
     ScriptVanishThenFire, ScriptAccelHalfNamed, ScriptChangesReplaced,
     ScriptAccelReplaced, ScriptFireChangesFire}
    \cup AccelScripts \cup FireScripts \cup {ScriptSequenceWide} \cup NameScripts
    \cup RepeatScripts \cup DurationScripts

\* The host's bullet when the runner is made.
Managers ==
    {[turn |-> t, direction |-> Whole(0), aim_direction |-> Whole(42),
      speed |-> Whole(1), speed_x |-> 0, speed_y |-> 0,
      default_speed |-> Whole(3), rank |-> 1, vars |-> v] :
        t \in 0..MaxStartTurn,
        v \in {EmptyMap, [n \in {<<"w">>} |-> Whole(2)]}}

\* A bullet that heads for 20 degrees at the speed 2.
MovingManagers ==
    {[turn |-> 0, direction |-> Whole(20), aim_direction |-> Whole(42),
      speed |-> Whole(2), speed_x |-> 0, speed_y |-> 0,
      default_speed |-> Whole(3), rank |-> 1, vars |-> EmptyMap]}

\* One changeSpeed, changeDirection or accel that is never to end: its
\* duration is infinite.
OverflowScripts ==
    {BulletML("None", <<TopAction(Ltop, <<step>>)>>) :
        step \in {StepChangeSpeed("Absolute", Float(Whole(3)), Float(F32_INFINITY)),
                  StepChangeDirection("Absolute", Float(Whole(90)), Float(F32_INFINITY)),
                  StepAccel(Some(Horizontal("Absolute", Float(Whole(1)))), None,
                            Float(F32_INFINITY))}}

\* The scripts with the bullets they are run for, and whether the build checks
\* for overflow.  The scripts with a finite duration come nowhere near
\* u32::MAX, so that the two builds do the same with them.
RunnerInputs ==
    (RunnerScripts \X Managers \X {FALSE})
    \cup ((DirectionScripts \cup SpeedScripts) \X MovingManagers \X {FALSE})
    \cup (OverflowScripts \X Managers \X BOOLEAN)

Init ==
    /\ \E input \in RunnerInputs :
          /\ script = input[1]
          /\ mgr = input[2]
          /\ host = [n |-> 0, first |-> 0, last |-> 0, lockstep |-> TRUE,
                     ret |-> [ok |-> TRUE, val |-> FALSE], seen |-> <<>>,
                     overflow_checks |-> input[3]]
    /\ runner = RunnerNew(script)
    /\ calls = <<>>
    /\ tree = Idle /\ iter = Idle /\ yielded = Idle /\ compiled = Idle /\ calc = Idle /\ later = Idle

\* The runner's fields and the host's bullet, as update() takes them.
running ==
    [st |-> runner.state, it |-> runner.bulletml.steps,
     mgr |-> mgr, calls |-> <<>>, seen |-> <<>>,
     overflow_checks |-> host.overflow_checks]

\* What a call of update() that ended as r leaves behind.  calls and host.seen
\* are the commands and the nodes of this call; host.n counts the calls up to
\* 2; lockstep says that the host has called update() once in every turn
\* since the first.  A call that panicked has taken the runner with it.
updated_to(r) ==
    /\ runner' = [runner EXCEPT !.state = r.X.st, !.bulletml.steps = r.X.it,
                                !.status = IF ~r.ret.ok /\ r.ret.err = AddOverflow
                                           THEN "panicked"
                                           ELSE "ok"]
    /\ mgr' = r.X.mgr
    /\ calls' = r.X.calls
    /\ host' = [n        |-> IF host.n < 2 THEN host.n + 1 ELSE 2,
                first    |-> IF host.n = 0 THEN mgr.turn ELSE host.first,
                last     |-> mgr.turn,
                lockstep |-> host.lockstep
                             /\ (host.n = 0 \/ mgr.turn = host.last + 1),
                ret      |-> r.ret,
                seen     |-> r.X.seen,
                overflow_checks |-> host.overflow_checks]

\* The host calls runner.update().
Update ==
    /\ runner.status = "ok"
    /\ updated_to(update(running))
    /\ UNCHANGED <<tree, iter, yielded, script, compiled, calc, later>>

\* The game advances by one turn.
Tick ==
    /\ mgr.turn < MaxTurn
    /\ mgr' = [mgr EXCEPT !.turn = @ + 1]
    /\ UNCHANGED <<tree, iter, yielded, script, compiled, runner, calls, host, calc, later>>

Next == Update \/ Tick

Spec == Init /\ [][Next]_vars

----------------------------------------------------------------------------
(* What the runner is to do *)

\* The nodes that update() is to interpret at and below node n, in pre-order:
\* a node, then its children in index order, a repeat having the copies of
\* its body for children.
RECURSIVE ExpNode(_, _)
RECURSIVE ExpNodes(_, _)
ExpNode(n, m) ==
    <<n.data>>
    \o ExpNodes(IF n.data.step = "Repeat"
                THEN n.children
                     \o new_steps(n.data.repeat,
                                  as_usize(eval(n.data.repeat.times.value, m).val))
                ELSE n.children,
                m)

ExpNodes(ns, m) ==
    IF ns = <<>> THEN <<>> ELSE ExpNode(Head(ns), m) \o ExpNodes(Tail(ns), m)

NotRoot(data) == data.step # "Root"

Pauses(data) == data.step \in {"Wait", "Vanish"}

IsWaitAt(seen, i) == seen[i].step = "Wait"

HasCall(name) == \E i \in 1..Len(calls) : calls[i].call = name

ChangeSpeedCall(v) == [call |-> "change_speed", args |-> <<v>>]

\* C2: when no node of the script pauses and no evaluation fails, the first
\* update() interprets every step of the executable tree, repeats unrolled,
\* in pre-order.
C2_UpdateInterpretsPreOrder ==
    (/\ runner.status = "ok"
     /\ host.n = 1
     /\ host.ret.ok
     /\ \A i \in 1..Len(ExpNode(RunnerNew(script).bulletml.steps.zipper.node, mgr)) :
           ~Pauses(ExpNode(RunnerNew(script).bulletml.steps.zipper.node, mgr)[i]))
    => SelectSeq(host.seen, NotRoot)
       = SelectSeq(ExpNode(RunnerNew(script).bulletml.steps.zipper.node, mgr), NotRoot)

\* C3: for the top action [repeat 3 [fire direction absolute 0]] one update()
\* issues exactly three new_simple(0, default_speed) calls.
C3_RepeatThreeFires ==
    (script = ScriptRepeatFire /\ host.n = 1)
    => calls = [k \in 1..3 |->
                   [call |-> "new_simple", args |-> <<Whole(0), mgr.default_speed>>]]

\* C4: for the top action [wait 3, vanish], the host updating once a turn from
\* turn 0, the update() at turn 0 does not call vanish() and the update() at
\* turn 4 does.
C4_WaitThenVanish ==
    (script = ScriptWaitVanish /\ host.n >= 1 /\ host.lockstep /\ host.first = 0)
    => /\ host.last = 0 => ~HasCall("vanish")
       /\ host.last = 4 => HasCall("vanish")

\* C5: the update() that interprets a Wait for the first time stores
\* turn + ceil(frames) in `next` and interprets no node after the Wait.
C5_FirstWaitPauses ==
    (/\ runner.status = "ok"
     /\ host.n = 1
     /\ host.ret.ok
     /\ FirstIndex(host.seen, IsWaitAt) # 0)
    => /\ FirstIndex(host.seen, IsWaitAt) = Len(host.seen)
       /\ runner.state.next
          = Some(host.last
                 + ceil_u32(eval(host.seen[FirstIndex(host.seen, IsWaitAt)].wait.frames,
                                 mgr).val))

\* C6 as stated: a changeSpeed (sequence, 0.5, 10 turns) interpreted at turn t
\* with speed 1, the host updating once a turn: change_speed is called at the
\* turns t .. t+9 with 1, 1.5, .., 5.5, and at t+10 with 6, which empties the
\* slot.
C6_ChangeSpeedFromInstallTurn ==
    (script = ScriptChangeSpeed /\ host.n >= 1 /\ host.lockstep)
    => /\ (host.last - host.first) \in 0..9
          => calls = <<ChangeSpeedCall(Whole(1) + (host.last - host.first))>>
       /\ (host.last - host.first) = 10
          => /\ calls = <<ChangeSpeedCall(Whole(6))>>
             /\ runner.state.change_speed = None

\* C6 amended: the update() at turn t installs the function and calls nothing;
\* change_speed is called at the turns t+1 .. t+9 with 1.5, 2, .., 5.5, and at
\* t+10 with 6, which empties the slot; later updates call nothing.
C6_ChangeSpeedFromNextTurn ==
    (script = ScriptChangeSpeed /\ host.n >= 1 /\ host.lockstep)
    => /\ (host.last - host.first) = 0
          => /\ calls = <<>>
             /\ runner.state.change_speed
                = Some(FunctionNew(host.first, host.first + 10, Whole(1), Whole(6)))
       /\ (host.last - host.first) \in 1..9
          => /\ calls = <<ChangeSpeedCall(Whole(1) + (host.last - host.first))>>
             /\ is_some(runner.state.change_speed)
       /\ (host.last - host.first) = 10
          => /\ calls = <<ChangeSpeedCall(Whole(6))>>
             /\ runner.state.change_speed = None
       /\ (host.last - host.first) > 10
          => calls = <<>>

C6_Witness ==
    /\ script = ScriptChangeSpeed
    /\ host.lockstep
    /\ host.last - host.first = 10
    /\ calls = <<ChangeSpeedCall(Whole(6))>>
    /\ runner.state.change_speed = None

\* The command a fire issues.
SpawnCall(name, dir, speed) == [call |-> name, args |-> <<dir, speed>>]

\* C11: for one top action with one fire of a plain bullet, aim_direction 42
\* and default_speed 3, the first update() issues exactly new_simple(42, 3)
\* and exhausts the cursor; a later update() finds nothing to do.
C11_FireOnceThenDone ==
    (script = ScriptFireOnce /\ host.n >= 1)
    => /\ runner.bulletml.steps.done
       /\ host.n = 1
          => /\ calls = <<SpawnCall("new_simple", Whole(42), Whole(3))>>
             /\ host.ret = [ok |-> TRUE, val |-> TRUE]
       /\ host.n = 2
          => /\ calls = <<>>
             /\ host.ret = [ok |-> TRUE, val |-> FALSE]

C11_Witness ==
    /\ script = ScriptFireOnce
    /\ host.n = 2
    /\ runner.bulletml.steps.done
    /\ calls = <<>>
    /\ host.ret = [ok |-> TRUE, val |-> FALSE]

\* No update function is installed in the State st.
NoSlotActive(st) ==
    /\ ~is_some(st.change_dir)
    /\ ~is_some(st.change_speed)
    /\ ~is_some(st.accel_x)
    /\ ~is_some(st.accel_y)

\* C12: an update() that does not fail returns Ok(false) exactly when, at the
\* start of the call, the cursor has no more nodes and no slot is active.  (A
\* step that leaves the turn alone is an update().)
C12_FalseIffNothingToDo ==
    [][(mgr'.turn = mgr.turn /\ host'.ret.ok)
       => (host'.ret.val = FALSE
           <=> (runner.bulletml.steps.done /\ NoSlotActive(runner.state)))]_vars

C12_Witness ==
    /\ runner.status = "ok"
    /\ host.n = 2
    /\ host.ret = [ok |-> TRUE, val |-> TRUE]
    /\ runner.bulletml.steps.done
    /\ is_some(runner.state.change_speed)

\* The commands of one name among cs, in the order they were given.
CallsOf(cs, name) == SelectSeq(cs, LAMBDA c : c.call = name)

\* A node that the update() step interprets after it has run the functions
\* assigns the slot anew: a changeDirection, a changeSpeed or an accel.
Reinstalled(slot) ==
    \E i \in 1..Len(host'.seen) :
        host'.seen[i].step
        = CASE slot = "change_dir" -> "ChangeDirection"
            [] slot = "change_speed" -> "ChangeSpeed"
            [] OTHER -> "Accel"

\* What an update() step does for one slot and the command cb that belongs to
\* it: an active function is called once, at the turn's value while the turn
\* is in [min, max) and the slot stays as it is, at its end value otherwise
\* and the slot is emptied; an empty slot gives no call.
SlotStep(slot, cb) ==
    IF is_some(runner.state[slot])
    THEN IF unwrap(runner.state[slot]).min <= mgr.turn
            /\ mgr.turn < unwrap(runner.state[slot]).max
         THEN /\ CallsOf(calls', cb)
                 = <<[call |-> cb,
                      args |-> <<unwrap(runner.state[slot]).start
                                 + TruncDiv((unwrap(runner.state[slot]).end
                                             - unwrap(runner.state[slot]).start)
                                            * (mgr.turn - unwrap(runner.state[slot]).min),
                                            unwrap(runner.state[slot]).max
                                            - unwrap(runner.state[slot]).min)>>]>>
              /\ runner'.state[slot] = runner.state[slot] \/ Reinstalled(slot)
         ELSE /\ CallsOf(calls', cb)
                 = <<[call |-> cb, args |-> <<unwrap(runner.state[slot]).end>>]>>
              /\ runner'.state[slot] = None \/ Reinstalled(slot)
    ELSE CallsOf(calls', cb) = <<>>

\* C13: in every update() each active slot issues exactly one call of its own
\* command, start + step * (turn - min) inside [min, max) with the slot kept,
\* the end value otherwise with the slot emptied; an empty slot issues none.
C13_EachSlotCallsOnce ==
    [][(runner.status = "ok" /\ mgr'.turn = mgr.turn)
       => /\ SlotStep("change_dir", "change_direction")
          /\ SlotStep("change_speed", "change_speed")
          /\ SlotStep("accel_x", "accel_x")
          /\ SlotStep("accel_y", "accel_y")]_vars

C13_Witness ==
    /\ script = ScriptChangeDirection
    /\ host.n = 2
    /\ host.first = 1
    /\ calls = <<[call |-> "change_direction", args |-> <<Whole(45)>>]>>
    /\ is_some(runner.state.change_dir)

IsFunctionCall(c) ==
    c.call \in {"change_direction", "change_speed", "accel_x", "accel_y"}

IsNodeCall(c) == c.call \in {"new_simple", "new", "vanish"}

\* C14: within one update() every call made by an update function comes
\* before every new_simple, new or vanish call, and the first update() of a
\* runner, which can only install functions, makes no function call.
C14_FunctionsBeforeNodes ==
    (runner.status = "ok" /\ host.n >= 1)
    => /\ \A i, j \in 1..Len(calls) :
             (IsNodeCall(calls[i]) /\ IsFunctionCall(calls[j])) => j < i
       /\ host.n = 1 => \A i \in 1..Len(calls) : ~IsFunctionCall(calls[i])

C14_Witness ==
    /\ script = ScriptChangeSpeedVanish
    /\ host.n = 2
    /\ calls = <<ChangeSpeedCall(Whole(2)), [call |-> "vanish", args |-> <<>>]>>

\* The fire of a script of FireScripts and its bullet.
SoleFire(bulletml) == bulletml.elements[1].entity.steps[1].fire.entity

SoleBullet(bulletml) == SoleFire(bulletml).bullet.entity

\* The runner as Runner::new leaves it, with the manager m.
Fresh(bulletml, m) == [st |-> StateNew(bulletml.orientation), mgr |-> m]

\* The direction and the speed a fire is to give its bullet: the bullet's own
\* if it has one, else the fire's, else the manager's aim or default.
ExpDir(fire, bullet, X) ==
    IF is_some(bullet.direction)
    THEN target_direction_data(X, unwrap(bullet.direction)).val
    ELSE IF is_some(fire.direction)
    THEN target_direction_data(X, unwrap(fire.direction)).val
    ELSE X.mgr.aim_direction

ExpSpeed(fire, bullet, X) ==
    IF is_some(bullet.speed)
    THEN target_speed_data(X, unwrap(bullet.speed)).val
    ELSE IF is_some(fire.speed)
    THEN target_speed_data(X, unwrap(fire.speed)).val
    ELSE X.mgr.default_speed

\* C15: a Fire node spawns exactly one bullet, with the bullet's direction,
\* else the fire's, else aim_direction, and the speed likewise with
\* default_speed last; through new_simple when the bullet has no actions and
\* through new otherwise; and prev_dir and prev_speed become the two values.
C15_FireChoosesAndRecords ==
    (script \in FireScripts /\ host.n = 1)
    => /\ calls
          = <<SpawnCall(IF SoleBullet(script).actions = <<>> THEN "new_simple" ELSE "new",
                        ExpDir(SoleFire(script), SoleBullet(script), Fresh(script, mgr)),
                        ExpSpeed(SoleFire(script), SoleBullet(script), Fresh(script, mgr)))>>
       /\ runner.state.prev_dir
          = Some(ExpDir(SoleFire(script), SoleBullet(script), Fresh(script, mgr)))
       /\ runner.state.prev_speed
          = Some(ExpSpeed(SoleFire(script), SoleBullet(script), Fresh(script, mgr)))

C15_Witness ==
    /\ script \in FireScripts
    /\ host.n = 1
    /\ is_some(SoleFire(script).direction)
    /\ is_some(SoleBullet(script).direction)
    /\ is_some(SoleFire(script).speed)
    /\ ~is_some(SoleBullet(script).speed)
    /\ calls = <<SpawnCall("new", Whole(52), Whole(2))>>
    /\ runner.state.prev_dir = Some(Whole(52))

\* The degrees of the sequence step of the two fires of a script.
SequenceStep(bulletml) ==
    unwrap(bulletml.elements[1].entity.steps[1].fire.entity.direction).degrees.v

\* C16: of two consecutive fires with direction sequence d on a fresh runner,
\* the first bullet goes in the aim direction and the second in the first
\* one's direction plus d, modulo 360.
C16_SequenceStartsAtAim ==
    (script \in {ScriptSequenceFires, ScriptSequenceWide} /\ host.n = 1)
    => calls
       = <<SpawnCall("new_simple", mgr.aim_direction, mgr.default_speed),
           SpawnCall("new_simple",
                     (mgr.aim_direction + SequenceStep(script)) % Whole(360),
                     mgr.default_speed)>>

C16_Witness ==
    /\ script = ScriptSequenceFires
    /\ host.n = 1
    /\ calls = <<SpawnCall("new_simple", Whole(42), Whole(3)),
                 SpawnCall("new_simple", Whole(52), Whole(3))>>

\* The accel of a script of AccelScripts.
SoleAccel(bulletml) == bulletml.elements[1].entity.steps[1].accel

\* The function that an element of an accel, read at turn t while the axis
\* speed is 0, is to put into the slot it drives.
ExpAxis(element, t, duration) ==
    IF ~is_some(element)
    THEN None
    ELSE Some(FunctionNew(t, t + duration.value.v \div 2, 0,
                          unwrap(element).change.v))

\* C17: in Horizontal orientation the horizontal element of an accel drives
\* accel_y and the vertical one accel_x, in None and Vertical orientation
\* horizontal drives accel_x and vertical accel_y; and in Horizontal
\* orientation horizontal = 1 over one turn leads to accel_y(1) and to no
\* accel_x call.
C17_OrientationSwapsAxes ==
    /\ (script \in AccelScripts /\ host.n = 1)
       => IF script.orientation = "Horizontal"
          THEN /\ runner.state.accel_y
                  = ExpAxis(SoleAccel(script).horizontal, host.first,
                            SoleAccel(script).duration)
               /\ runner.state.accel_x
                  = ExpAxis(SoleAccel(script).vertical, host.first,
                            SoleAccel(script).duration)
          ELSE /\ runner.state.accel_x
                  = ExpAxis(SoleAccel(script).horizontal, host.first,
                            SoleAccel(script).duration)
               /\ runner.state.accel_y
                  = ExpAxis(SoleAccel(script).vertical, host.first,
                            SoleAccel(script).duration)
    /\ (script = ScriptAccelHorizontal /\ host.n >= 1 /\ host.lockstep)
       => /\ CallsOf(calls, "accel_x") = <<>>
          /\ host.last = host.first + 1
             => calls = <<[call |-> "accel_y", args |-> <<Whole(1)>>]>>

C17_Witness ==
    /\ script = ScriptAccelHorizontal
    /\ host.lockstep
    /\ host.last = host.first + 1
    /\ calls = <<[call |-> "accel_y", args |-> <<Whole(1)>>]>>
    /\ runner.state.accel_y = None

IsRepeatAt(seen, i) == seen[i].step = "Repeat"

\* The nodes a repeat hangs under its node, in pre-order.
Injected(repeat, m) ==
    ExpNodes(new_steps(repeat, as_usize(eval(repeat.times.value, m).val)), m)

\* C20: the children that a Repeat adds to its node are the next nodes the
\* cursor visits, all of them, so that the update() that interprets the
\* Repeat interprets them too (none of them pausing, nothing failing).
C20_InjectedChildrenRunAtOnce ==
    (/\ runner.status = "ok"
     /\ host.n = 1
     /\ host.ret.ok
     /\ FirstIndex(host.seen, IsRepeatAt) # 0)
    => /\ Len(host.seen)
          >= FirstIndex(host.seen, IsRepeatAt)
             + Len(Injected(host.seen[FirstIndex(host.seen, IsRepeatAt)].repeat, mgr))
       /\ SubSeq(host.seen,
                 FirstIndex(host.seen, IsRepeatAt) + 1,
                 FirstIndex(host.seen, IsRepeatAt)
                 + Len(Injected(host.seen[FirstIndex(host.seen, IsRepeatAt)].repeat, mgr)))
          = Injected(host.seen[FirstIndex(host.seen, IsRepeatAt)].repeat, mgr)

----------------------------------------------------------------------------
(* What parsing, folding and evaluating an expression are to do *)

Evaluated(v) == [ok |-> TRUE, val |-> v]

\* The names of an expression, from left to right.
RECURSIVE Names(_)
Names(e) ==
    CASE e.expr = "Unary" -> Names(e.operand)
      [] e.expr = "Binary" -> Names(e.lhs) \o Names(e.rhs)
      [] e.expr = "Var" /\ e.var = "Named" -> <<e.name>>
      [] OTHER -> <<>>

Unresolved(e, ctx) == SelectSeq(Names(e), LAMBDA n : n \notin DOMAIN ctx.vars)

RECURSIVE PieceEnd(_, _)
PieceEnd(t, p) ==
    IF p <= Len(t) /\ t[p] \notin OpChars \cup {"(", ")"}
    THEN PieceEnd(t, p + 1)
    ELSE p

RECURSIVE Pieces(_, _)
Pieces(t, p) ==
    CASE p > Len(t) -> <<>>
      [] t[p] \in OpChars \cup {"(", ")"} -> <<<<t[p]>>>> \o Pieces(t, p + 1)
      [] OTHER -> <<SubSeq(t, p, PieceEnd(t, p) - 1)>> \o Pieces(t, PieceEnd(t, p))

IsOperand(k, i) == k[i] \in AtomTexts

IsOperator(k, i) == Len(k[i]) = 1 /\ k[i][1] \in OpChars

\* The tree of an operand.
Operand(a) ==
    CASE a = <<"$", "r", "a", "n", "k">> -> Rank
      [] a[1] = "$" -> Named(Tail(a))
      [] OTHER -> Float(Value(1, DigitValue(a[1]), 1))

Joined(o, l, r) == binary(BinaryOp(o[1]), l, r)

Parsed(e) == Some([ok |-> TRUE, val |-> e])

\* C22: in a o1 b o2 c the second operator takes b when it is one of * / %
\* and the first is + or -, and the first takes it otherwise; parentheses
\* decide where they stand; and 1+2*2 = 5, 2*2+1 = 5, (2+1)*2 = 6,
\* 2*(1-2*4) = -14, -(-1) = 1.
C22_PrecedenceAndGrouping ==
    /\ (calc.stage # "text" /\ Len(Pieces(calc.text, 1)) = 5
        /\ (\A i \in {1, 3, 5} : IsOperand(Pieces(calc.text, 1), i))
        /\ (\A i \in {2, 4} : IsOperator(Pieces(calc.text, 1), i)))
       => LET k == Pieces(calc.text, 1)
          IN  calc.ast
              = IF k[4][1] \in {"*", "/", "%"} /\ k[2][1] \in {"+", "-"}
                THEN Parsed(Joined(k[2], Operand(k[1]),
                                   Joined(k[4], Operand(k[3]), Operand(k[5]))))
                ELSE Parsed(Joined(k[4],
                                   Joined(k[2], Operand(k[1]), Operand(k[3])),
                                   Operand(k[5])))
    /\ (calc.stage # "text" /\ Len(Pieces(calc.text, 1)) = 7
        /\ Pieces(calc.text, 1)[1] = <<"(">> /\ Pieces(calc.text, 1)[5] = <<")">>
        /\ (\A i \in {2, 4, 7} : IsOperand(Pieces(calc.text, 1), i))
        /\ (\A i \in {3, 6} : IsOperator(Pieces(calc.text, 1), i)))
       => LET k == Pieces(calc.text, 1)
          IN  calc.ast
              = Parsed(Joined(k[6], Joined(k[3], Operand(k[2]), Operand(k[4])),
                              Operand(k[7])))
    /\ (calc.stage # "text" /\ Len(Pieces(calc.text, 1)) = 7
        /\ Pieces(calc.text, 1)[3] = <<"(">> /\ Pieces(calc.text, 1)[7] = <<")">>
        /\ (\A i \in {1, 4, 6} : IsOperand(Pieces(calc.text, 1), i))
        /\ (\A i \in {2, 5} : IsOperator(Pieces(calc.text, 1), i)))
       => LET k == Pieces(calc.text, 1)
          IN  calc.ast
              = Parsed(Joined(k[2], Operand(k[1]),
                              Joined(k[5], Operand(k[4]), Operand(k[6]))))
    /\ calc.stage = "evaluated"
       => /\ calc.text = <<"1", "+", "2", "*", "2">>
             => unwrap(calc.value) = Evaluated(Value(1, 5, 1))
          /\ calc.text = <<"2", "*", "2", "+", "1">>
             => unwrap(calc.value) = Evaluated(Value(1, 5, 1))
          /\ calc.text = <<"(", "2", "+", "1", ")", "*", "2">>
             => unwrap(calc.value) = Evaluated(Value(1, 6, 1))
          /\ calc.text = <<"2", "*", "(", "1", "-", "2", "*", "4", ")">>
             => unwrap(calc.value) = Evaluated(Value(-1, 14, 1))
          /\ calc.text = <<"-", "(", "-", "1", ")">>
             => unwrap(calc.value) = Evaluated(Value(1, 1, 1))

C22_Witness ==
    /\ calc.stage = "evaluated"
    /\ calc.text = <<"2", "*", "(", "1", "-", "2", "*", "4", ")">>
    /\ unwrap(calc.ast).val.rhs.rhs.op = "Mul"
    /\ unwrap(calc.value) = Evaluated(Value(-1, 14, 1))

RECURSIVE HasVar(_)
HasVar(e) ==
    CASE e.expr = "Unary" -> HasVar(e.operand)
      [] e.expr = "Binary" -> HasVar(e.lhs) \/ HasVar(e.rhs)
      [] OTHER -> e.expr = "Var"

\* No part of e without a variable is anything but a literal.
RECURSIVE Folded(_)
Folded(e) ==
    CASE e.expr = "Unary" -> HasVar(e.operand) /\ Folded(e.operand)
      [] e.expr = "Binary" ->
            (HasVar(e.lhs) \/ HasVar(e.rhs)) /\ Folded(e.lhs) /\ Folded(e.rhs)
      [] OTHER -> TRUE

\* C23: in the folded tree every part without a variable is one literal, so
\* that a tree without variables is folded to a literal; and in every context
\* the folded tree evaluates to what the tree as parsed evaluates to, an
\* error included.
C23_FoldKeepsTheValue ==
    /\ calc.stage \in {"folded", "evaluated"}
       => /\ Folded(unwrap(calc.expression))
          /\ ~HasVar(unwrap(calc.ast).val) => unwrap(calc.expression).expr = "Float"
    /\ calc.stage = "evaluated"
       => unwrap(calc.value) = eval_expr(unwrap(calc.ast).val, calc.ctx)

C23_Witness ==
    /\ calc.stage = "evaluated"
    /\ calc.text = <<"$", "x", "+", "1", "*", "2">>
    /\ unwrap(calc.ast).val.rhs.expr = "Binary"
    /\ unwrap(calc.expression) = binary("Add", Named(<<"x">>), Float(Value(1, 2, 1)))
    /\ unwrap(calc.value) = Evaluated(Value(1, 4, 1))

----------------------------------------------------------------------------
(* What the runner is to do, continued *)

\* The node the latest update() stopped at.
LastSeen == host.seen[Len(host.seen)]

\* How many of the nodes spawn or vanish, and how many commands do.
NodeCalls(cs) == Len(SelectSeq(cs, IsNodeCall))

IsCallingNode(data) == data.step \in {"Fire", "Vanish"}

\* C24: when update() fails, it is with UndefinedVariable of a name that the
\* manager does not know, the name of the first expression that the node under
\* the cursor evaluates, and the commands of the call are those of the nodes
\* before that node: the node itself has spawned nothing and vanished nothing.
C24_FailedNodeCommandsNothing ==
    (runner.status = "ok" /\ host.n >= 1 /\ ~host.ret.ok)
    => /\ host.ret.err.error = "UndefinedVariable"
       /\ host.ret.err.name \notin DOMAIN mgr.vars
       /\ host.ret.err.name
          = IF LastSeen.step = "Fire" /\ is_some(LastSeen.fire.direction)
               /\ LastSeen.fire.direction[1].degrees = Named(<<"u">>)
            THEN <<"u">>
            ELSE <<"w">>
       /\ NodeCalls(calls) = Len(SelectSeq(SubSeq(host.seen, 1, Len(host.seen) - 1),
                                           IsCallingNode))
       /\ runner.bulletml.steps.zipper.node.data = LastSeen

C24_Witness ==
    /\ host.n = 1
    /\ ~host.ret.ok
    /\ LastSeen.step = "Fire"
    /\ is_some(LastSeen.fire.speed)
    /\ host.ret.err = UndefinedVariable(<<"w">>)
    /\ calls = <<SpawnCall("new_simple", Whole(42), Whole(3))>>

\* The Repeat nodes of a tree, in pre-order.
RECURSIVE RepeatNodes(_)
RECURSIVE RepeatNodesAll(_)
RepeatNodes(n) ==
    IF n.data.step = "Repeat" THEN <<n>> ELSE RepeatNodesAll(n.children)

RepeatNodesAll(ns) ==
    IF ns = <<>> THEN <<>> ELSE RepeatNodes(Head(ns)) \o RepeatNodesAll(Tail(ns))

\* The Repeat node of a script of RepeatScripts, in what the cursor and its
\* chain of frames hold of the runner's tree.
RepeatNode == Head(RepeatNodes(Rebuild(runner.bulletml.steps.zipper)))

\* The times of that repeat, in halves.
RepeatTimes == script.elements[1].entity.steps[1].repeat.times.value.v

\* C25: once the Repeat node has been interpreted its children are count * k
\* nodes, the i-th the node of the action ((i - 1) mod k) + 1 of the repeat,
\* with k the number of actions and count 0 for a times that is NaN or below
\* 1 and the whole part of times otherwise.
C25_RepeatInjectsCountCopies ==
    (script \in RepeatScripts /\ host.n >= 1)
    => LET k     == Len(RepeatNode.data.repeat.actions)
           count == IF RepeatTimes = F32_NAN \/ RepeatTimes < 2
                    THEN 0
                    ELSE CHOOSE c \in 0..RepeatTimes :
                             2 * c <= RepeatTimes /\ RepeatTimes < 2 * (c + 1)
       IN  /\ RepeatNode.data.step = "Repeat"
           /\ Len(RepeatNode.children) = count * k
           /\ \A i \in 1..(count * k) :
                 RepeatNode.children[i]
                 = into_node([step   |-> "Action",
                              action |-> RepeatNode.data.repeat.actions[((i - 1) % k) + 1]])

C25_Witness ==
    /\ script \in RepeatScripts
    /\ host.n = 1
    /\ RepeatTimes = 5
    /\ Len(RepeatNode.children) = 4
    /\ Len(RepeatNode.children[2].children) = 2
    /\ Len(RepeatNode.children[3].children) = 1

\* The direction of the i-th fire of a script of DirectionScripts.
FireDirection(i) == unwrap(script.elements[1].entity.steps[i].fire.entity.direction)

\* The angle of a kind and its degrees before the reduction; prev is the
\* direction of the fire before, if there was one.
Angle(kind, degrees, prev) ==
    CASE kind = "Aim" -> degrees + mgr.aim_direction
      [] kind = "Absolute" ->
            IF script.orientation = "Horizontal" THEN degrees - 180 ELSE degrees
      [] kind = "Relative" -> degrees + mgr.direction
      [] OTHER -> IF is_some(prev) THEN degrees + unwrap(prev) ELSE mgr.aim_direction

\* a reduced modulo 360 degrees: off a by a multiple of 360, nearer to 0 than
\* 360, and not on the other side of 0.
Reduced(a) ==
    CHOOSE r \in (-719)..719 :
        /\ (a - r) % 720 = 0
        /\ a >= 0 => r >= 0
        /\ a <= 0 => r <= 0

\* C26: the directions of two fires in a row are the reduced angles of their
\* kinds: degrees + aim_direction for Aim, degrees (less 90 in horizontal
\* orientation) for Absolute, degrees + direction for Relative, and for
\* Sequence aim_direction in the first fire, which has no fire before it, and
\* degrees + the first fire's direction in the second.
C26_TargetDirectionByKind ==
    (script \in DirectionScripts /\ host.n = 1)
    => /\ Len(calls) = 2
       /\ calls[1].args[1]
          = Reduced(Angle(FireDirection(1).kind, FireDirection(1).degrees.v, None))
       /\ calls[2].args[1]
          = Reduced(Angle(FireDirection(2).kind, FireDirection(2).degrees.v,
                          Some(calls[1].args[1])))
       /\ runner.state.prev_dir = Some(calls[2].args[1])

C26_Witness ==
    /\ script \in DirectionScripts
    /\ script.orientation = "Horizontal"
    /\ host.n = 1
    /\ mgr.direction = Whole(20)
    /\ FireDirection(1).kind = "Absolute"
    /\ FireDirection(2) = Direction("Sequence", Float(Whole(-100)))
    /\ calls = <<SpawnCall("new_simple", Whole(260), Whole(3)),
                 SpawnCall("new_simple", Whole(160), Whole(3))>>

\* The speed of the i-th fire of a script of SpeedScripts.
FireSpeed(i) == unwrap(script.elements[1].entity.steps[i].fire.entity.speed)

\* C27: the speeds of two fires in a row are, by kind: the value for
\* Absolute, the value + speed() for Relative, and for Sequence 1 in the first
\* fire, whatever the value, and the value + the first fire's speed in the
\* second.
C27_TargetSpeedByKind ==
    (script \in SpeedScripts /\ host.n = 1)
    => /\ Len(calls) = 2
       /\ calls[1].args[2]
          = CASE FireSpeed(1).kind = "Absolute" -> FireSpeed(1).change.v
              [] FireSpeed(1).kind = "Relative" -> FireSpeed(1).change.v + mgr.speed
              [] OTHER -> 2
       /\ calls[2].args[2]
          = CASE FireSpeed(2).kind = "Absolute" -> FireSpeed(2).change.v
              [] FireSpeed(2).kind = "Relative" -> FireSpeed(2).change.v + mgr.speed
              [] OTHER -> FireSpeed(2).change.v + calls[1].args[2]
       /\ runner.state.prev_speed = Some(calls[2].args[2])

C27_Witness ==
    /\ script \in SpeedScripts
    /\ host.n = 1
    /\ FireSpeed(1).kind = "Sequence"
    /\ FireSpeed(2) = Speed("Sequence", Float(-2))
    /\ mgr.speed = Whole(2)
    /\ calls = <<SpawnCall("new_simple", Whole(42), Whole(1)),
                 SpawnCall("new_simple", Whole(42), Whole(0))>>

\* The step of a script of DurationScripts, its duration in halves, and the
\* number of turns the duration stands for.
SoleStep == script.elements[1].entity.steps[1]

Duration ==
    CASE SoleStep.step = "ChangeSpeed" -> SoleStep.change_speed.value.value.v
      [] SoleStep.step = "ChangeDirection" -> SoleStep.change_direction.value.value.v
      [] OTHER -> SoleStep.accel.duration.value.v

Turns(d) ==
    IF d = F32_NAN \/ d <= 0
    THEN 0
    ELSE CHOOSE c \in 1..d : 2 * c >= d /\ 2 * (c - 1) < d

\* The slots the step fills, in the order in which update() runs them, and
\* for a slot its command, the manager's value it starts from, and the kind
\* and the value of the change.
Slots ==
    CASE SoleStep.step = "ChangeSpeed" -> <<"change_speed">>
      [] SoleStep.step = "ChangeDirection" -> <<"change_dir">>
      [] OTHER -> <<"accel_x", "accel_y">>

Command(slot) == IF slot = "change_dir" THEN "change_direction" ELSE slot

Current(slot) ==
    CASE slot = "change_speed" -> mgr.speed
      [] slot = "change_dir" -> mgr.direction
      [] slot = "accel_x" -> mgr.speed_x
      [] OTHER -> mgr.speed_y

Changing(slot) ==
    CASE slot = "change_speed" ->
            [kind |-> SoleStep.change_speed.speed.kind,
             v    |-> SoleStep.change_speed.speed.change.v]
      [] slot = "change_dir" ->
            [kind |-> SoleStep.change_direction.direction.kind,
             v    |-> SoleStep.change_direction.direction.degrees.v]
      [] slot = "accel_x" ->
            [kind |-> unwrap(SoleStep.accel.horizontal).kind,
             v    |-> unwrap(SoleStep.accel.horizontal).change.v]
      [] OTHER ->
            [kind |-> unwrap(SoleStep.accel.vertical).kind,
             v    |-> unwrap(SoleStep.accel.vertical).change.v]

\* Where a change that takes no time ends.
FinalAtOnce(slot) ==
    CASE Changing(slot).kind = "Absolute" -> Changing(slot).v
      [] Changing(slot).kind = "Relative" -> Changing(slot).v + Current(slot)
      [] OTHER -> Current(slot)

\* C28: the update() at turn t that interprets the step fills its slots with
\* functions from the manager's value over [t, t + ceil(max(d, 0))), NaN
\* counting as 0, and calls nothing.  When that is no turn at all, the next
\* update() calls each slot's command once with the function's end value and
\* empties the slots, and the updates after it call nothing.  (A step that
\* leaves the turn alone is an update().)
C28_DurationClampedAndCeiled ==
    [][(script \in DurationScripts /\ mgr'.turn = mgr.turn)
       => /\ host.n = 0
             => /\ calls' = <<>>
                /\ \A i \in 1..Len(Slots) :
                      /\ is_some(runner'.state[Slots[i]])
                      /\ unwrap(runner'.state[Slots[i]]).min = mgr.turn
                      /\ unwrap(runner'.state[Slots[i]]).max
                         = mgr.turn + Turns(Duration)
                      /\ unwrap(runner'.state[Slots[i]]).start = Current(Slots[i])
                      /\ Turns(Duration) = 0
                         => unwrap(runner'.state[Slots[i]]).end = FinalAtOnce(Slots[i])
          /\ (host.n = 1 /\ Turns(Duration) = 0)
             => /\ calls' = [i \in 1..Len(Slots) |->
                                [call |-> Command(Slots[i]),
                                 args |-> <<unwrap(runner.state[Slots[i]]).end>>]]
                /\ NoSlotActive(runner'.state)
          /\ (host.n = 2 /\ Turns(Duration) = 0)
             => calls' = <<>>]_vars

C28_Witness ==
    /\ script \in DurationScripts
    /\ Duration = F32_NAN
    /\ SoleStep.step = "Accel"
    /\ SoleStep.accel.horizontal = Some(Horizontal("Absolute", Float(Whole(1))))
    /\ host.n = 2
    /\ calls = <<[call |-> "accel_x", args |-> <<Whole(1)>>],
                 [call |-> "accel_y", args |-> <<Whole(2)>>]>>
    /\ NoSlotActive(runner.state)

----------------------------------------------------------------------------
(* What BulletML::new is to do, continued *)

\* What the elements that are compiled where they stand register and refer
\* to, and what the top actions do.
EarlyEvents == EvElements(script.elements, FALSE)

DeferredEvents == EvElements(script.elements, TRUE)

\* Every named reference of the top actions names an entity that an element
\* which is not a top action carries, and those elements refer to no name.
TopsReferToTheOthers ==
    /\ FirstIndex(EarlyEvents, IsRefAt) = 0
    /\ FirstIndex(DeferredEvents, IsRefAt) # 0
    /\ \A i \in 1..Len(DeferredEvents) :
          IsRefAt(DeferredEvents, i)
          => \E j \in 1..Len(EarlyEvents) :
                EarlyEvents[j] = EvDef(DeferredEvents[i].kind, DeferredEvents[i].label)

\* C29: the bullets, the fires and the actions that are not top actions are
\* compiled and registered before any top action is compiled, wherever they
\* stand in the document: a top action whose references name only such
\* elements never fails to find one of them.
C29_TopActionsCompileLast ==
    (compiled.status # "none" /\ TopsReferToTheOthers)
    => ~(compiled.status = "err" /\ compiled.err.error = "CannotFind")

C29_Witness ==
    /\ compiled.status # "none"
    /\ TopsReferToTheOthers
    /\ Len(script.elements) = 2
    /\ IsTop(script.elements[1])
    /\ ~IsTop(script.elements[2])

----------------------------------------------------------------------------
(* What the runner is to do after a vanish *)

\* The latest update() ended at a Vanish node.
Vanished ==
    /\ runner.status = "ok"
    /\ host.n >= 1
    /\ host.ret.ok
    /\ host.seen # <<>>
    /\ LastSeen.step = "Vanish"

\* C30: once an update() has ended at a Vanish node, every later update()
\* interprets that node and no other, commands vanish once more and spawns
\* nothing, returns Ok(true), and leaves the cursor where it was, not done.
\* (A step that leaves the turn alone is an update().)
C30_VanishHoldsTheCursor ==
    [][(mgr'.turn = mgr.turn /\ Vanished)
       => /\ host'.seen = <<LastSeen>>
          /\ SelectSeq(calls', IsNodeCall) = <<[call |-> "vanish", args |-> <<>>]>>
          /\ host'.ret = [ok |-> TRUE, val |-> TRUE]
          /\ runner'.bulletml.steps = runner.bulletml.steps
          /\ ~runner'.bulletml.steps.done
          /\ runner'.bulletml.steps.zipper.node.data = LastSeen]_vars

C30_Witness ==
    /\ script \in RepeatScripts
    /\ RepeatTimes = Whole(2)
    /\ Len(script.elements[1].entity.steps[1].repeat.actions) = 2
    /\ Vanished
    /\ host.n = 2
    /\ host.seen = <<LastSeen>>
    /\ calls = <<[call |-> "vanish", args |-> <<>>]>>
    /\ mgr.turn > host.first

----------------------------------------------------------------------------
(* What the runner is to do once it has nothing left to do *)

\* The latest update() returned Ok(false).
ReportedDone ==
    /\ runner.status = "ok"
    /\ host.n >= 1
    /\ host.ret = [ok |-> TRUE, val |-> FALSE]

\* C31: an update() that follows one that returned Ok(false) returns Ok(false)
\* too, interprets no node, commands nothing and leaves the slots empty and
\* the cursor done.  (A step that leaves the turn alone is an update().)
C31_DoneStaysDone ==
    [][(mgr'.turn = mgr.turn /\ ReportedDone)
       => /\ host'.ret = [ok |-> TRUE, val |-> FALSE]
          /\ host'.seen = <<>>
          /\ calls' = <<>>
          /\ NoSlotActive(runner'.state)
          /\ runner'.bulletml.steps.done]_vars

C31_Witness ==
    /\ ReportedDone
    /\ script \in DurationScripts
    /\ host.n = 2
    /\ host.seen = <<>>
    /\ calls = <<>>
    /\ NoSlotActive(runner.state)
    /\ runner.bulletml.steps.done
    /\ mgr.turn >= host.first + 3

----------------------------------------------------------------------------
(* How much one update() does *)

\* The copies that a Repeat is to hang under its node: none when the count
\* has no value, is NaN or is below 1, else as many as its whole part.
Copies(repeat) ==
    IF /\ eval(repeat.times.value, mgr).ok
       /\ eval(repeat.times.value, mgr).val # F32_NAN
       /\ eval(repeat.times.value, mgr).val >= Whole(1)
    THEN new_steps(repeat, eval(repeat.times.value, mgr).val \div 2)
    ELSE <<>>

\* The nodes of an executable tree in pre-order, the copies of every Repeat
\* hung under it once.
RECURSIVE Unrolled(_)
RECURSIVE UnrolledAll(_)
Unrolled(n) ==
    <<n.data>>
    \o UnrolledAll(IF n.data.step = "Repeat"
                   THEN n.children \o Copies(n.data.repeat)
                   ELSE n.children)

UnrolledAll(ns) ==
    IF ns = <<>> THEN <<>> ELSE Unrolled(Head(ns)) \o UnrolledAll(Tail(ns))

CompiledRoot == RunnerNew(script).bulletml.steps.zipper.node

\* C32: an update() comes to an end having interpreted no more nodes than
\* the tree has with every Repeat unrolled once, and the root once more (the
\* first next() of a cursor stays on the root); the first update() has
\* interpreted the steps of a prefix of them in pre-order; a Vanish is the
\* last node of its call; and a call that neither failed nor stopped at a
\* Vanish or a Wait has exhausted the cursor.
C32_UpdateIsBounded ==
    (runner.status = "ok" /\ host.n >= 1)
    => /\ Len(host.seen) <= Len(Unrolled(CompiledRoot)) + 1
       /\ host.n = 1
          => SelectSeq(host.seen, NotRoot)
             = SubSeq(SelectSeq(Unrolled(CompiledRoot), NotRoot),
                      1, Len(SelectSeq(host.seen, NotRoot)))
       /\ \A i \in 1..(Len(host.seen) - 1) : host.seen[i].step # "Vanish"
       /\ (host.ret.ok /\ (host.seen = <<>> \/ LastSeen.step \notin {"Vanish", "Wait"}))
          => runner.bulletml.steps.done

C32_Witness ==
    /\ script \in RepeatScripts
    /\ RepeatTimes = 5
    /\ host.n = 1
    /\ Len(host.seen) = 6
    /\ Len(SelectSeq(host.seen, LAMBDA d : d.step = "Repeat")) = 1
    /\ LastSeen.step = "Vanish"
    /\ Len(Unrolled(CompiledRoot)) > 6

----------------------------------------------------------------------------
(* What a failed node leaves behind *)

\* C34: an update() that starts with empty slots and fails at the first step
\* it interprets (the nodes before it being Root nodes, which do nothing)
\* leaves the State as it was and the cursor on the node that failed.  (A step
\* that leaves the turn alone is an update().)
C34_FailedNodeChangesNothing ==
    [][(/\ mgr'.turn = mgr.turn
        /\ runner.status = "ok"
        /\ NoSlotActive(runner.state)
        /\ ~host'.ret.ok
        /\ Len(SelectSeq(host'.seen, NotRoot)) = 1)
       => /\ runner'.state = runner.state
          /\ ~runner'.bulletml.steps.done
          /\ runner'.bulletml.steps.zipper.node.data = host'.seen[Len(host'.seen)]]_vars

----------------------------------------------------------------------------
(* Scripts whose named actions refer to each other *)

\* The labels of the actions that a top-level element refers to by name.
NamedActionsOf(el) ==
    {EvElement(el)[k].label :
        k \in {k \in 1..Len(EvElement(el)) :
                  EvElement(el)[k].ev = "ref" /\ EvElement(el)[k].kind = "action"}}

\* The top-level action at i refers by name to the label of the one at j.
RefersTo(i, j) ==
    /\ script.elements[i].element = "Action"
    /\ script.elements[j].element = "Action"
    /\ is_some(script.elements[j].entity.label)
    /\ unwrap(script.elements[j].entity.label) \in NamedActionsOf(script.elements[i])

\* An action that refers to its own label, or two that refer to each other.
HasCycle ==
    \E i, j \in 1..Len(script.elements) : RefersTo(i, j) /\ RefersTo(j, i)

\* C33: BulletML::new comes to an end on a script whose named actions form a
\* cycle, and its outcome is an error: nothing is expanded.
C33_CyclesAreRejected ==
    (compiled.status # "none" /\ HasCycle)
    => /\ compiled.status = "err"
       /\ compiled.err.error \in {"CannotFind", "Duplicate"}

C33_Witness ==
    /\ compiled.status = "err"
    /\ Len(script.elements) = 2
    /\ script.elements[1].entity.label = Some(La)
    /\ script.elements[2].entity.label = Some(Lb)
    /\ RefersTo(1, 2) /\ RefersTo(2, 1)
    /\ compiled.err = CannotFind(Lb)

----------------------------------------------------------------------------
(* Functions that replace functions *)

\* The slot holds what it held, or nothing.
KeptOrEmptied(slot) ==
    runner'.state[slot] = runner.state[slot] \/ runner'.state[slot] = None

\* C35: when a changeSpeed and a changeDirection are interpreted while the
\* functions of an earlier changeSpeed and changeDirection are installed, each
\* slot holds the function of the later one alone, and the end values of the
\* earlier ones (7 and 70) are never passed to the manager.  (A step that
\* leaves the turn alone is an update().)
C35_LaterChangeReplaces ==
    [][(script = ScriptChangesReplaced /\ mgr'.turn = mgr.turn)
       => /\ host.n = 0
             => /\ runner'.state.change_speed
                   = Some(FunctionNew(mgr.turn, mgr.turn + 1, mgr.speed, Whole(3)))
                /\ runner'.state.change_dir
                   = Some(FunctionNew(mgr.turn, mgr.turn + 1, mgr.direction, Whole(30)))
          /\ host.n >= 1
             => KeptOrEmptied("change_speed") /\ KeptOrEmptied("change_dir")
          /\ \A k \in 1..Len(calls') :
                calls'[k].args \notin {<<Whole(7)>>, <<Whole(70)>>}]_vars

C35_Witness ==
    /\ script = ScriptChangesReplaced
    /\ host.n = 2
    /\ calls = <<[call |-> "change_direction", args |-> <<Whole(30)>>],
                 [call |-> "change_speed", args |-> <<Whole(3)>>]>>
    /\ NoSlotActive(runner.state)

\* C36: when an accel with a horizontal element alone is interpreted while
\* the two functions of an earlier accel are installed, accel_x holds the
\* later function and accel_y is empty, and the end values of the earlier
\* functions (5 and 6) are never passed to the manager: the manager gets no
\* accel_y command at all.  (A step that leaves the turn alone is an
\* update().)
C36_AccelOverwritesBothSlots ==
    [][(script = ScriptAccelReplaced /\ mgr'.turn = mgr.turn)
       => /\ host.n = 0
             => /\ runner'.state.accel_x
                   = Some(FunctionNew(mgr.turn, mgr.turn + 1, mgr.speed_x, Whole(1)))
                /\ runner'.state.accel_y = None
          /\ host.n >= 1
             => KeptOrEmptied("accel_x") /\ runner'.state.accel_y = None
          /\ CallsOf(calls', "accel_y") = <<>>
          /\ \A k \in 1..Len(calls') :
                calls'[k].args \notin {<<Whole(5)>>, <<Whole(6)>>}]_vars

C36_Witness ==
    /\ script = ScriptAccelReplaced
    /\ host.n = 2
    /\ calls = <<[call |-> "accel_x", args |-> <<Whole(1)>>]>>
    /\ NoSlotActive(runner.state)

----------------------------------------------------------------------------
(* What the latest fire leaves for the next *)

NoFire(data) == data.step # "Fire"

\* C37: an update() that interprets no Fire node leaves prev_dir and
\* prev_speed as they were; and a fire in sequence that follows a fire at 10
\* degrees with speed 2 and, after it, a changeSpeed, a changeDirection, an
\* accel, a wait and a repeat, is fired at 15 degrees with speed 3.  (A step
\* that leaves the turn alone is an update().)
C37_OnlyFireRemembers ==
    [][(runner.status = "ok" /\ mgr'.turn = mgr.turn)
       => /\ SelectSeq(host'.seen, NoFire) = host'.seen
             => /\ runner'.state.prev_dir = runner.state.prev_dir
                /\ runner'.state.prev_speed = runner.state.prev_speed
          /\ (script = ScriptFireChangesFire /\ host.n = 0)
             => /\ calls' = <<SpawnCall("new_simple", Whole(10), Whole(2)),
                             SpawnCall("new_simple", Whole(15), Whole(3))>>
                /\ runner'.state.prev_dir = Some(Whole(15))
                /\ runner'.state.prev_speed = Some(Whole(3))]_vars

C37_Witness ==
    /\ script = ScriptFireChangesFire
    /\ host.n = 1
    /\ Len(host.seen) >= 9
    /\ runner.state.prev_dir = Some(Whole(15))
    /\ runner.state.prev_speed = Some(Whole(3))
    /\ is_some(runner.state.change_speed)
    /\ is_some(runner.state.change_dir)
    /\ is_some(runner.state.accel_x)

----------------------------------------------------------------------------
(* Labels and kinds *)

\* An entity of another kind has registered the label of the reference at i
\* before it.
IsNamesakeRefAt(evs, i) ==
    /\ IsUnregisteredRefAt(evs, i)
    /\ \E j \in 1..(i - 1) :
          /\ evs[j].ev = "def"
          /\ evs[j].label = evs[i].label
          /\ evs[j].kind # evs[i].kind

\* C38: a script without named references in which no two entities of one
\* kind carry the same label compiles, whatever labels entities of different
\* kinds share; and when the first named reference carries a label that only
\* entities of other kinds have registered (nothing having failed before),
\* BulletML::new fails with CannotFind of that label.
C38_LabelsArePerKind ==
    LET evs == Events(script)
        r   == FirstIndex(evs, IsRefAt)
        d   == FirstIndex(evs, IsRepeatedDefAt)
    IN  compiled.status # "none"
        => /\ (r = 0 /\ d = 0) => compiled.status = "ok"
           /\ (r # 0 /\ IsNamesakeRefAt(evs, r) /\ (d = 0 \/ r < d))
              => /\ compiled.status = "err"
                 /\ compiled.err = CannotFind(evs[r].label)

C38_Witness ==
    /\ compiled.status = "ok"
    /\ Len(script.elements) = 2
    /\ \E i, j, k \in 1..Len(Events(script)) :
          /\ Events(script)[i] = EvDef("action", La)
          /\ Events(script)[j] = EvDef("bullet", La)
          /\ Events(script)[k] = EvDef("fire", La)

----------------------------------------------------------------------------
(* The turns of a function *)

Slot == {"change_dir", "change_speed", "accel_x", "accel_y"}

\* C39: no update() ends in the panic of an overflowing addition, and every
\* function held in a slot ends no earlier than it starts.
C39_EndTurnNeverWraps ==
    /\ runner.status # "panicked"
    /\ runner.status = "ok"
       => \A slot \in Slot :
             is_some(runner.state[slot])
             => unwrap(runner.state[slot]).min <= unwrap(runner.state[slot]).max

----------------------------------------------------------------------------
(* The iterator after its end *)

\* C40: once next() has returned None the iterator is done, current() and
\* current_mut() return None, and every later next() returns None and leaves
\* it so.
C40_ExhaustionIsAbsorbing ==
    (Len(yielded) > 0 /\ yielded[Len(yielded)] = None)
    => /\ iter.done
       /\ current_mut(iter) = None
       /\ \A k \in 1..Len(later) :
             later[k].next = None /\ later[k].current = None

C40_Witness ==
    /\ Len(yielded) >= 4
    /\ yielded[Len(yielded)] = None
    /\ Len(later) = MaxAgain
    /\ later[MaxAgain] = [next |-> None, current |-> None]
    /\ iter.done

====
